---- MODULE Spec2Model ----
(***************************************************************************)
(* Verification model of the Auphere backend.                              *)
(*                                                                         *)
(*   Spec       the plans router (app/routers/plans.py) over the plans     *)
(*              table, with the agent's plan-edit and vector-upsert calls. *)
(*   RelaySpec  GPTBackendClient.stream_chat_sse, the agent SSE relay.     *)
(*   FlowSpec   LangflowClient.stream_chat_sse, the alternate backend.     *)
(***************************************************************************)
EXTENDS Integers, Sequences, FiniteSets, TLC

VARIABLES
    plans,      \* the plans table: plan id -> row (DOMAIN = the ids stored)
    issued,     \* the ids uuid4() has handed out so far
    now,        \* datetime.utcnow(), a logical clock
    lastReq     \* the request handled last and everything it answered / sent

plansVars == <<plans, issued, now, lastReq>>

\* GPTBackendClient.stream_chat_sse
VARIABLES
    rpc,            \* where the generator is: "start", "relaying", "done", "raised"
    received,       \* the upstream lines aiter_lines() has delivered so far
    out,            \* everything the generator has yielded so far
    current_event,  \* the local of that name ("" for None)
    fate            \* "none", or the failure the try block ended with

relayVars == <<rpc, received, out, current_event, fate>>

\* LangflowClient.stream_chat_sse
VARIABLES
    mode,              \* payload.get("mode", "recommend")
    flow_ids,          \* self.flow_ids, "" for an id that is not configured
    fpc,               \* "start", "streaming", "done", "raised"
    blocks,            \* the blocks split off the buffer so far
    frames,            \* the SSE frames yielded so far
    accumulated_text,  \* the locals of the same names
    flow_places,       \* the local `places`
    final_data,
    ffate,             \* "none", or how the stream failed
    flow_call          \* the call made on the client and the request it sent

flowVars == <<mode, flow_ids, fpc, blocks, frames, accumulated_text, flow_places,
              final_data, ffate, flow_call>>

\* app/dependencies.py: token validation
VARIABLES
    auth0_domain,   \* settings.auth0_domain ("" when not configured)
    authCalls       \* the dependency calls resolved so far, each with its outcome

authVars == <<auth0_domain, authCalls>>

\* GooglePlacesPopularTimesService._calculate_popularity
VARIABLES
    score_args,     \* the arguments of the call
    score           \* the score returned, NotScored before the call

popVars == <<score_args, score>>

\* normalize_place applied to a raw place, and to its own result
VARIABLES
    raw_place,      \* the raw place handed to normalize_place
    norm_pc,        \* "start", "first", "second", "none" or "raised"
    first_pass,     \* normalize_place(raw_place)
    second_pass     \* normalize_place(first_pass)

normVars == <<raw_place, norm_pc, first_pass, second_pass>>

\* the cache client (RedisClient) and the popular-times lookup that uses it
VARIABLES
    cache_store,    \* what the Redis server holds: entries [key, v, expires]
    redis_up,       \* whether the Redis server answers
    cache_clock,    \* seconds since the start
    api_key,        \* settings.google_places_api_key
    cache_log       \* the calls made so far, each with what its caller saw

cacheVars == <<cache_store, redis_up, cache_clock, api_key, cache_log>>

\* get_db: the session each inbound request works with
VARIABLES
    db_pc,          \* per request: "waiting", "running", "returned", "raised"
    db_session,     \* per request: the session get_db yielded to it
    db_open,        \* the sessions that hold a connection
    db_closed,      \* the sessions released
    db_pending,     \* the open sessions with work not committed
    db_committed,   \* the sessions whose handler committed
    next_session    \* the sessions AsyncSessionLocal() has made so far

dbVars == <<db_pc, db_session, db_open, db_closed, db_pending, db_committed, next_session>>

\* GET /places/{place_id}
VARIABLES
    place_request,  \* the last request: what it asked and what its callees did
    place_response  \* the response it got

placeVars == <<place_request, place_response>>

\* concurrent ai_edit PATCH requests on one plan
VARIABLES
    conc_stored,    \* the extra_data column of the plan's row in the database
    conc_req,       \* per request: where it is, the extra_data its session
                    \* loaded, and the extra_data it assigned
    conc_now        \* the clock

concVars == <<conc_stored, conc_req, conc_now>>

\* enrich_place_with_amenities applied twice to one payload
VARIABLES
    amen_pc,        \* "start", "once", "twice" or "raised"
    amen_sent,      \* the payload as it was before the first call
    amen_place,     \* the payload, as the calls have left it
    amen_once,      \* the amenities list of the first call
    amen_twice      \* the amenities list of the second call

amenVars == <<amen_pc, amen_sent, amen_place, amen_once, amen_twice>>

\* normalize_places applied to one argument
VARIABLES
    nps_pc,         \* "start", "loop", "done" or "raised"
    raw_places,     \* the argument: a list, or null
    nps_i,          \* how many elements the loop has taken
    nps_norm,       \* what normalize_place gave for the last element taken
    normalized      \* the list being built, and returned

npsVars == <<nps_pc, raw_places, nps_i, nps_norm, normalized>>

\* GET and POST /places/search
VARIABLES
    search_request, \* the last search request: its method and what it gave
    search_params   \* the params it sent to places_service.search_places

searchVars == <<search_request, search_params>>

\* utils/analytics.py in one process
VARIABLES
    an_settings,        \* the settings and whether the SDK could be imported
    an_loaded,          \* whether the module has been imported
    _posthog_client,    \* whether the module global holds a client
    _is_production,     \* the module global
    an_constructed,     \* how many times Posthog(...) has been constructed
    an_warnings,        \* how many warnings _init_analytics has logged
    an_calls,           \* how many calls the process has made
    an_last             \* the last call: what it was, whether it sent, whether
                        \* the collector raised, whether the call raised

analyticsVars ==
    <<an_settings, an_loaded, _posthog_client, _is_production, an_constructed,
      an_warnings, an_calls, an_last>>

\* what each specification leaves alone
exceptPlans ==
    <<relayVars, flowVars, authVars, popVars, normVars, cacheVars, dbVars, placeVars, concVars, amenVars, npsVars, searchVars, analyticsVars>>
exceptRelay ==
    <<plansVars, flowVars, authVars, popVars, normVars, cacheVars, dbVars, placeVars, concVars, amenVars, npsVars, searchVars, analyticsVars>>
exceptFlow ==
    <<plansVars, relayVars, authVars, popVars, normVars, cacheVars, dbVars, placeVars, concVars, amenVars, npsVars, searchVars, analyticsVars>>
exceptAuth ==
    <<plansVars, relayVars, flowVars, popVars, normVars, cacheVars, dbVars, placeVars, concVars, amenVars, npsVars, searchVars, analyticsVars>>
exceptPop ==
    <<plansVars, relayVars, flowVars, authVars, normVars, cacheVars, dbVars, placeVars, concVars, amenVars, npsVars, searchVars, analyticsVars>>
exceptNorm ==
    <<plansVars, relayVars, flowVars, authVars, popVars, cacheVars, dbVars, placeVars, concVars, amenVars, npsVars, searchVars, analyticsVars>>
exceptCache ==
    <<plansVars, relayVars, flowVars, authVars, popVars, normVars, dbVars, placeVars, concVars, amenVars, npsVars, searchVars, analyticsVars>>
exceptDb ==
    <<plansVars, relayVars, flowVars, authVars, popVars, normVars, cacheVars, placeVars, concVars, amenVars, npsVars, searchVars, analyticsVars>>
exceptPlace ==
    <<plansVars, relayVars, flowVars, authVars, popVars, normVars, cacheVars, dbVars, concVars, amenVars, npsVars, searchVars, analyticsVars>>
exceptConc ==
    <<plansVars, relayVars, flowVars, authVars, popVars, normVars, cacheVars, dbVars, placeVars, amenVars, npsVars, searchVars, analyticsVars>>
exceptAmen ==
    <<plansVars, relayVars, flowVars, authVars, popVars, normVars, cacheVars, dbVars, placeVars, concVars, npsVars, searchVars, analyticsVars>>
exceptNps ==
    <<plansVars, relayVars, flowVars, authVars, popVars, normVars, cacheVars, dbVars, placeVars, concVars, amenVars, searchVars, analyticsVars>>
exceptSearch ==
    <<plansVars, relayVars, flowVars, authVars, popVars, normVars, cacheVars, dbVars, placeVars, concVars, amenVars, npsVars, analyticsVars>>
exceptAnalytics ==
    <<plansVars, relayVars, flowVars, authVars, popVars, normVars, cacheVars, dbVars, placeVars, concVars, amenVars, npsVars, searchVars>>

(***************************************************************************)
(* Bounds of the model and constants of the program.                       *)
(***************************************************************************)
MaxClock == 2
AuditCap == 20

Users == {"A", "B"}
PlanIds == {"p1", "p2"}
None == "None"

(***************************************************************************)
(* Values.  A JSON list is a sequence, a JSON object a set of "key=value"  *)
(* strings, a nullable string is a string or None.  The metadata object    *)
(* (column extra_data) keeps its ai_edits key apart from its other keys.   *)
(***************************************************************************)
NoEdits == [t |-> "absent", v |-> <<>>]
EditList(s) == [t |-> "list", v |-> s]
NotAList == [t |-> "other", v |-> <<>>]
Meta(edits, rest) == [ai_edits |-> edits, rest |-> rest]
EmptyMeta == Meta(NoEdits, {})

\* bool(d) of a metadata dict: an empty dict is falsy
MetaTruthy(m) == ~(m.ai_edits.t = "absent" /\ m.rest = {})

OldEntry(i) == [at |-> i - AuditCap - 1, edit |-> "old", agent_summary |-> None]
OldEntries(n) == [i \in 1..n |-> OldEntry(i)]

\* edits[-n:]
LastN(s, n) == IF Len(s) <= n THEN s ELSE SubSeq(s, Len(s) - n + 1, Len(s))

\* payload.f, or d when the body leaves f out or gives null
Opt(b, f, d) == IF f \in DOMAIN b THEN b[f] ELSE d

(***************************************************************************)
(* Request bodies.  A body is a record of the fields it supplies with a    *)
(* non-null value; a field outside its DOMAIN parses to the schema         *)
(* default.  state may also be given as an explicit null (None).           *)
(***************************************************************************)
CreateBodies ==
    { [name |-> "Night out", stops |-> <<"s1">>],
      [name |-> "Date", description |-> "d1", category |-> "romantic",
       state |-> "draft", vibes |-> <<"chill">>, tags |-> <<"t1">>,
       execution |-> {"city=Zaragoza"}, stops |-> <<"s1", "s2">>,
       summary |-> {"total_duration=3h"}, final_recommendations |-> <<"r1">>,
       metadata |-> Meta(NoEdits, {"source=chat"}), vibe |-> "chill",
       total_duration |-> "180", total_distance |-> "2.5"],
      [name |-> "Audited", state |-> None, stops |-> <<>>,
       metadata |-> Meta(EditList(OldEntries(AuditCap)), {})] }

PatchBodies ==
    { [name |-> "New Name"],
      [description |-> "d2", category |-> "friends_night", state |-> "completed"],
      [vibes |-> <<"fun">>, tags |-> <<"t2">>, stops |-> <<"s3">>],
      [execution |-> {"city=Madrid"}, summary |-> {"total_duration=1h"},
       final_recommendations |-> <<"r2">>],
      [metadata |-> Meta(EditList(OldEntries(2)), {"k=v"})],
      [name |-> "", vibes |-> <<>>, metadata |-> EmptyMeta] }

\* PlanCreateRequest.state: Optional, default "saved"
PlanCreateRequest_state(b) == IF "state" \in DOMAIN b THEN b.state ELSE "saved"

\* x or d, for a nullable string
StrOr(x, d) == IF x = None \/ x = "" THEN d ELSE x

(***************************************************************************)
(* The table.                                                              *)
(***************************************************************************)
\* select(Plan).where(Plan.id == plan_id, Plan.user_id == current_user["id"])
SelectPlanAnyOwner(user, id) == id \in DOMAIN plans
SelectPlan(user, id) == id \in DOMAIN plans /\ plans[id].user_id = user

NoBody == [none |-> TRUE]

\* One handled request: who asked what (op, user, id, body), what was
\* answered (status, detail, plan or listing), what edit_plan did ("none" when
\* it was not called) and what upsert_plan_vector did ("none" likewise).
Req(op, user, id, body, status, detail, plan, agent, upsert) ==
    [op |-> op, user |-> user, id |-> id, body |-> body, status |-> status,
     detail |-> detail, plan |-> plan, listing |-> {}, agent |-> agent,
     upsert |-> upsert]

\* raise HTTPException(status_code=404, detail="Plan not found")
NotFound(op, user, id, body) ==
    Req(op, user, id, body, 404, "Plan not found", NoBody, "none", "none")

\* what upsert_plan_vector can do: answer 2xx, answer non-2xx
\* (raise_for_status raises) or fail in transport (post raises)
UpsertOutcomes == {"ok", "non2xx", "raise"}

\* try: await upsert_plan_vector(...) except Exception: pass
AfterUpsertPropagates(status, outcome) == IF outcome = "ok" THEN status ELSE 500
AfterUpsert(status, outcome) == status

PlansInit ==
    /\ plans = <<>>
    /\ issued = {}
    /\ now = 0
    /\ lastReq = Req("none", "A", "", NoBody, 0, "", NoBody, "none", "none")

\* Plan(...) as create_plan builds it, with the column defaults
NewRow(id, user, b, t) ==
    [id |-> id,
     user_id |-> user,
     name |-> b.name,
     description |-> Opt(b, "description", None),
     category |-> Opt(b, "category", None),
     state |-> StrOr(PlanCreateRequest_state(b), "saved"),
     vibes |-> Opt(b, "vibes", <<>>),
     tags |-> Opt(b, "tags", <<>>),
     execution |-> Opt(b, "execution", {}),
     stops |-> b.stops,
     summary |-> Opt(b, "summary", {}),
     final_recommendations |-> Opt(b, "final_recommendations", <<>>),
     extra_data |-> Opt(b, "metadata", EmptyMeta),
     vibe |-> Opt(b, "vibe", None),
     total_duration |-> Opt(b, "total_duration", None),
     total_distance |-> Opt(b, "total_distance", None),
     created_at |-> t,
     updated_at |-> t]

\* GET /plans
list_plans(user, filter) ==
    /\ lastReq' = [Req("list", user, "", NoBody, 200, "", NoBody, "none", "none")
                       EXCEPT !.listing =
                           { plans[i] : i \in { j \in DOMAIN plans :
                               /\ plans[j].user_id = user
                               /\ (filter # "" => plans[j].state = filter) } }]
    /\ UNCHANGED <<plans, issued, now>>

\* POST /plans
create_plan(user, b, outcome) ==
    /\ issued # PlanIds
    /\ now < MaxClock
    /\ \E id \in PlanIds \ issued :
         LET row == NewRow(id, user, b, now + 1)
         IN /\ plans' = plans @@ (id :> row)
            /\ issued' = issued \cup {id}
            /\ now' = now + 1
            /\ lastReq' = Req("create", user, id, b, AfterUpsert(201, outcome), "",
                              row, "none", outcome)

\* GET /plans/{plan_id}
get_plan(user, id) ==
    /\ lastReq' = IF SelectPlan(user, id)
                  THEN Req("get", user, id, NoBody, 200, "", plans[id], "none", "none")
                  ELSE NotFound("get", user, id, NoBody)
    /\ UNCHANGED <<plans, issued, now>>

\* the assignments of update_plan, lines 242-258
Replaced(row, b, t) ==
    [row EXCEPT
        !.name = b.name,
        !.description = Opt(b, "description", None),
        !.category = Opt(b, "category", None),
        !.state = StrOr(PlanCreateRequest_state(b), row.state),
        !.vibes = Opt(b, "vibes", <<>>),
        !.tags = Opt(b, "tags", <<>>),
        !.execution = Opt(b, "execution", {}),
        !.stops = b.stops,
        !.summary = Opt(b, "summary", {}),
        !.final_recommendations = Opt(b, "final_recommendations", <<>>),
        !.extra_data = Opt(b, "metadata", EmptyMeta),
        !.updated_at = t,
        !.vibe = Opt(b, "vibe", None),
        !.total_duration = Opt(b, "total_duration", None),
        !.total_distance = Opt(b, "total_distance", None)]

\* PUT /plans/{plan_id}
update_plan(user, id, b) ==
    IF ~SelectPlan(user, id)
    THEN /\ lastReq' = NotFound("put", user, id, b)
         /\ UNCHANGED <<plans, issued, now>>
    ELSE /\ now < MaxClock
         /\ LET row == Replaced(plans[id], b, now + 1)
            IN /\ plans' = [plans EXCEPT ![id] = row]
               /\ lastReq' = Req("put", user, id, b, 200, "", row, "none", "none")
         /\ now' = now + 1
         /\ UNCHANGED issued

\* DELETE /plans/{plan_id}
delete_plan(user, id) ==
    IF ~SelectPlan(user, id)
    THEN /\ lastReq' = NotFound("delete", user, id, NoBody)
         /\ UNCHANGED <<plans, issued, now>>
    ELSE /\ plans' = [i \in DOMAIN plans \ {id} |-> plans[i]]
         /\ lastReq' = Req("delete", user, id, NoBody, 200, "Plan deleted successfully",
                           NoBody, "none", "none")
         /\ UNCHANGED <<issued, now>>

(***************************************************************************)
(* PATCH /plans/{plan_id}: field by field, or through the agent when the   *)
(* body carries ai_edit.                                                   *)
(***************************************************************************)
AiEditBodies ==
    { [ai_edit |-> "swap stop 2"],
      [ai_edit |-> "make it cheaper", name |-> "ignored"] }

\* a value of the agent's JSON under a key the router type-checks:
\* ok says whether isinstance(value, list) / isinstance(value, dict) holds
JList(s) == [ok |-> TRUE, v |-> s]
JNotList == [ok |-> FALSE, v |-> <<>>]
JDict(d) == [ok |-> TRUE, v |-> d]
JNotDict == [ok |-> FALSE, v |-> {}]

UpdatedPlans ==
    { [id |-> "agent-id"],
      [id |-> "agent-id", user_id |-> "B", name |-> "Edited",
       description |-> None, category |-> "friends_night",
       vibes |-> JList(<<"fun">>), tags |-> JList(<<>>),
       execution |-> JDict({"city=Teruel"}), stops |-> JList(<<"s9">>),
       summary |-> JDict({}), final_recommendations |-> JList(<<"r9">>)],
      [id |-> "agent-id", name |-> "", description |-> "d3",
       vibes |-> JNotList, tags |-> JNotList, execution |-> JNotDict,
       stops |-> JNotList, summary |-> JNotDict,
       final_recommendations |-> JNotList] }

\* what edit_plan can do: raise (transport failure, or a non-2xx answer that
\* raise_for_status turns into an exception), or return the agent's JSON
AgentRaises == [kind |-> "raise", success |-> FALSE, error |-> None,
                summary |-> None, updated_plan |-> [id |-> "agent-id"]]
AgentFails(e) == [AgentRaises EXCEPT !.kind = "json", !.error = e]
AgentEdits(u, s) == [kind |-> "json", success |-> TRUE, error |-> None,
                     summary |-> s, updated_plan |-> u]
AgentResults ==
    {AgentRaises, AgentFails(None), AgentFails("cannot edit")}
        \cup { AgentEdits(u, "done") : u \in UpdatedPlans }

\* isinstance(updated_plan.get(k), list/dict) and then updated_plan[k]
Typed(u, k, old) == IF k \in DOMAIN u /\ u[k].ok THEN u[k].v ELSE old

\* lines 338-353: the agent's replacement plan, key by key
EditedWithIdentity(row, u) ==
    [row EXCEPT
        !.id = Opt(u, "id", row.id),
        !.user_id = Opt(u, "user_id", row.user_id),
        !.name = StrOr(Opt(u, "name", None), row.name)]
Edited(row, u) ==
    [row EXCEPT
        !.name = StrOr(Opt(u, "name", None), row.name),
        !.description = Opt(u, "description", row.description),
        !.category = Opt(u, "category", row.category),
        !.vibes = Typed(u, "vibes", row.vibes),
        !.tags = Typed(u, "tags", row.tags),
        !.execution = Typed(u, "execution", row.execution),
        !.stops = Typed(u, "stops", row.stops),
        !.summary = Typed(u, "summary", row.summary),
        !.final_recommendations =
            Typed(u, "final_recommendations", row.final_recommendations)]

\* lines 357-359: extra.get("ai_edits") or [], and [] when it is no list
AuditTrail(extra) == IF extra.ai_edits.t = "list" THEN extra.ai_edits.v ELSE <<>>

AuditEntry(t, edit, summary) == [at |-> t, edit |-> edit, agent_summary |-> summary]

\* lines 360-367: append, then keep the last AuditCap
Audited(extra, entry) ==
    [extra EXCEPT !.ai_edits =
        EditList(LastN(Append(AuditTrail(extra), entry), AuditCap))]

\* Lines 356, 368 and 371.  extra = plan.extra_data or {} is the very dict
\* the row was loaded with whenever that dict is non-empty; the audit entry
\* is written into it in place and line 368 assigns the same object back.
\* extra_data is a plain JSON column (line 33, no mutation tracking), so the
\* flush of db.commit() compares the attribute with the value it was loaded
\* with, finds the same object, and leaves the column out of the UPDATE.
\* Only a fresh dict (loaded value empty) is written.
FlushedExtra(loaded, assigned) == IF MetaTruthy(loaded) THEN loaded ELSE assigned

\* lines 428-454: only the fields the body supplies
PatchedAll(row, p, t) ==
    [row EXCEPT
        !.name = Opt(p, "name", None),
        !.description = Opt(p, "description", None),
        !.category = Opt(p, "category", None),
        !.state = Opt(p, "state", "saved"),
        !.vibes = Opt(p, "vibes", <<>>),
        !.tags = Opt(p, "tags", <<>>),
        !.execution = Opt(p, "execution", {}),
        !.stops = Opt(p, "stops", <<>>),
        !.summary = Opt(p, "summary", {}),
        !.final_recommendations = Opt(p, "final_recommendations", <<>>),
        !.extra_data = Opt(p, "metadata", EmptyMeta),
        !.updated_at = t]
Patched(row, p, t) ==
    [row EXCEPT
        !.name = Opt(p, "name", row.name),
        !.description = Opt(p, "description", row.description),
        !.category = Opt(p, "category", row.category),
        !.state = Opt(p, "state", row.state),
        !.vibes = Opt(p, "vibes", row.vibes),
        !.tags = Opt(p, "tags", row.tags),
        !.execution = Opt(p, "execution", row.execution),
        !.stops = Opt(p, "stops", row.stops),
        !.summary = Opt(p, "summary", row.summary),
        !.final_recommendations =
            Opt(p, "final_recommendations", row.final_recommendations),
        !.extra_data = Opt(p, "metadata", row.extra_data),
        !.updated_at = t]

\* what the edit_plan call came to, as the router sees it
AgentSaid(agent) ==
    IF agent.kind = "raise" THEN "raised"
    ELSE IF agent.success THEN "edited" ELSE "failed"

\* lines 328-334: what the router answers to the agent's result, 0 = go on
EditRejectionNone(agent) == 0
EditRejection(agent) ==
    IF agent.kind = "raise" THEN 502
    ELSE IF ~agent.success THEN 400
    ELSE 0

\* PATCH /plans/{plan_id} without ai_edit
patch_plan(user, id, p) ==
    IF ~SelectPlan(user, id)
    THEN /\ lastReq' = NotFound("patch", user, id, p)
         /\ UNCHANGED <<plans, issued, now>>
    ELSE /\ now < MaxClock
         /\ LET row == Patched(plans[id], p, now + 1)
            IN /\ plans' = [plans EXCEPT ![id] = row]
               /\ \E outcome \in UpsertOutcomes :
                    lastReq' = Req("patch", user, id, p, AfterUpsert(200, outcome), "",
                                   row, "none", outcome)
         /\ now' = now + 1
         /\ UNCHANGED issued

\* lines 336-372: the accepted edit, as the row reads after commit and refresh
AiEdited(loaded, u, entry, t) ==
    [Edited(loaded, u) EXCEPT
        !.extra_data = FlushedExtra(loaded.extra_data,
                                    Audited(loaded.extra_data, entry)),
        !.updated_at = t]

\* PATCH /plans/{plan_id} with ai_edit
patch_plan_ai_edit(user, id, p) ==
    IF ~SelectPlan(user, id)
    THEN /\ lastReq' = NotFound("ai_edit", user, id, p)
         /\ UNCHANGED <<plans, issued, now>>
    ELSE \E agent \in AgentResults :
         IF EditRejection(agent) = 502
         THEN /\ lastReq' = Req("ai_edit", user, id, p, 502,
                                "Failed to reach agent for plan edit", NoBody,
                                AgentSaid(agent), "none")
              /\ UNCHANGED <<plans, issued, now>>
         ELSE IF EditRejection(agent) = 400
         THEN /\ lastReq' = Req("ai_edit", user, id, p, 400,
                                StrOr(agent.error, "Plan edit failed"), NoBody,
                                AgentSaid(agent), "none")
              /\ UNCHANGED <<plans, issued, now>>
         ELSE /\ now < MaxClock
              /\ LET row == AiEdited(plans[id], agent.updated_plan,
                                     AuditEntry(now + 1, p.ai_edit, agent.summary),
                                     now + 1)
                 IN /\ plans' = [plans EXCEPT ![id] = row]
                    /\ \E outcome \in UpsertOutcomes :
                         lastReq' = Req("ai_edit", user, id, p, AfterUpsert(200, outcome),
                                        "", row, AgentSaid(agent), outcome)
              /\ now' = now + 1
              /\ UNCHANGED issued

StateFilters == {"", "draft", "saved"}

(***************************************************************************)
(* app/utils/normalizers.py.  A raw place is a record of the keys it       *)
(* carries.  A JSON scalar that may be a number or a string is tagged;     *)
(* an address is the sequence of its comma-separated parts; an image is a  *)
(* URL or a photo reference.                                               *)
(***************************************************************************)
Num(n) == [j |-> "num", n |-> n, s |-> ""]
Str(x) == [j |-> "str", n |-> 0, s |-> x]
\* bool(x) of a JSON scalar
Truthy(x) == IF x.j = "num" THEN x.n # 0 ELSE x.s # ""

IMAGE_PLACEHOLDER == "https://images.unsplash.com/photo-1504674900247-0877df9cc836"
\* strings longer than 50 characters that do not start with "http"
PhotoReferences == {"photo_reference:AUjq9jk"}

\* a or b, for strings (None and "" are falsy)
Either(a, b) == IF a = None \/ a = "" THEN b ELSE a

\* the substrings _map_type_to_category looks for, as each type holds them
TypeKeywords(t) ==
    CASE t = "restaurant" -> {"restaurant"}
      [] t = "meal_takeaway" -> {"meal"}
      [] t = "cocktail_bar" -> {"bar", "cocktail"}
      [] t = "night_club" -> {"night_club", "club"}
      [] t = "coffee_shop" -> {"coffee"}
      [] t = "hookah_lounge" -> {"lounge"}
      [] OTHER -> {}

\* _map_type_to_category
_map_type_to_category(t) ==
    LET has == TypeKeywords(t)
    IN IF has \cap {"restaurant", "food", "meal", "dining"} # {} THEN "restaurant"
       ELSE IF has \cap {"bar", "pub", "tavern"} # {} THEN "bar"
       ELSE IF has \cap {"night_club", "club", "disco"} # {} THEN "club"
       ELSE IF has \cap {"cafe", "coffee"} # {} THEN "cafe"
       ELSE IF has \cap {"lounge", "cocktail"} # {} THEN "lounge"
       ELSE "activity"

\* _extract_neighborhood_from_address: the part before the first comma
_extract_neighborhood_from_address(address) ==
    IF Len(address) >= 2 THEN address[1] ELSE None

\* lines 99-103
ClampPriceNoFloor(level) == IF level > 4 THEN 4 ELSE level
ClampPrice(level) == IF level < 1 THEN 2 ELSE IF level > 4 THEN 4 ELSE level

\* lines 150-155: lon and lng mirror each other
NormalizeLocation(loc) ==
    IF "lng" \in DOMAIN loc /\ "lon" \notin DOMAIN loc THEN loc @@ [lon |-> loc.lng]
    ELSE IF "lon" \in DOMAIN loc /\ "lng" \notin DOMAIN loc THEN loc @@ [lng |-> loc.lon]
    ELSE loc

\* one optional key of the result: present only with a value
Field(k, present, v) == IF present THEN k :> v ELSE <<>>

\* line 37 testing only whether the key is there
NamelessOnlyWhenMissing(raw) == "name" \notin DOMAIN raw

\* line 37: not raw_place or not raw_place.get("name"); null is the record
\* with no key
Nameless(raw) == "name" \notin DOMAIN raw \/ raw.name = "" \/ raw.name = None

\* float(rating) / int(review_count) raise on a string that is no number
PlaceRaises(raw) ==
    LET rating == IF Truthy(Opt(raw, "rating", Num(0))) THEN raw.rating
                  ELSE Opt(raw, "google_rating", Num(0))
    IN Truthy(rating) /\ rating.j = "str"

\* normalize_place, lines 40-222, for a raw place that has a name and raises
\* nothing
NormalizedPlace(raw) ==
    LET place_id == Either(Opt(raw, "db_id", None), Either(Opt(raw, "id", None),
                        Opt(raw, "place_id", None)))
        google_place_id ==
            Either(Opt(raw, "place_id", None), Either(Opt(raw, "google_place_id", None),
                IF Either(Opt(raw, "db_id", None), None) = None
                THEN Opt(raw, "id", None) ELSE None))
        types == Opt(raw, "types", <<>>)
        category == Either(Opt(raw, "category", None),
                        IF types # <<>> THEN _map_type_to_category(types[1]) ELSE "place")
        rating == IF Truthy(Opt(raw, "rating", Num(0))) THEN raw.rating
                  ELSE Opt(raw, "google_rating", Num(0))
        review_count == IF Opt(raw, "reviewCount", 0) # 0 THEN raw.reviewCount
                        ELSE Opt(raw, "user_ratings_total", 0)
        address == IF Opt(raw, "address", <<>>) # <<>> THEN raw.address
                   ELSE Opt(raw, "formatted_address", <<>>)
        neighborhood == Either(Opt(raw, "neighborhood", None),
                            _extract_neighborhood_from_address(address))
        price_level == IF Opt(raw, "priceLevel", 0) # 0 THEN raw.priceLevel
                       ELSE IF Opt(raw, "price_level", 0) # 0 THEN raw.price_level
                       ELSE 2
        open_now == IF "openNow" \in DOMAIN raw THEN raw.openNow
                    ELSE Opt(raw, "open_now", TRUE)
        images == IF Opt(raw, "images", <<>>) # <<>>
                  THEN SelectSeq(raw.images, LAMBDA img : img \notin PhotoReferences)
                  ELSE IF Either(Opt(raw, "photo_url", None), None) # None
                  THEN <<raw.photo_url>>
                  ELSE <<>>
        vibe == IF Opt(raw, "vibe", <<>>) # <<>> THEN raw.vibe
                ELSE Opt(raw, "vibe_descriptor", <<>>)
        \* lines 169-174 parse as
        \*   (description or overview) if editorial_summary is a dict
        \*   else (None or summary or "")
        description ==
            IF "editorial_summary" \in DOMAIN raw
            THEN Either(Opt(raw, "description", None), raw.editorial_summary)
            ELSE Either(Opt(raw, "summary", None), "")
    IN  [name |-> raw.name,
         category |-> category,
         description |-> description,
         vibe |-> vibe,
         crowdLevel |-> Either(Opt(raw, "crowdLevel", None),
                            Either(Opt(raw, "crowd_level", None), "moderate")),
         musicType |-> Either(Opt(raw, "musicType", None),
                           Either(Opt(raw, "music_type", None), "ambient")),
         priceLevel |-> ClampPrice(price_level),
         rating |-> IF Truthy(rating) THEN rating ELSE Num(0),
         reviewCount |-> review_count,
         address |-> address,
         openNow |-> open_now,
         images |-> IF images # <<>> THEN images ELSE <<IMAGE_PLACEHOLDER>>]
        @@ Field("id", place_id # None, place_id)
        @@ Field("place_id", Either(google_place_id, place_id) # None,
                 Either(google_place_id, place_id))
        @@ Field("neighborhood", neighborhood # None, neighborhood)
        @@ Field("distance", "distance" \in DOMAIN raw, Opt(raw, "distance", 0))
        @@ Field("location", "location" \in DOMAIN raw,
                 NormalizeLocation(Opt(raw, "location", <<>>)))
        @@ Field("phone", Either(Opt(raw, "phone", None), None) # None,
                 Opt(raw, "phone", None))
        @@ Field("amenities", Opt(raw, "amenities", <<>>) # <<>>,
                 Opt(raw, "amenities", <<>>))

\* normalize_places, lines 225-236: the normalized forms of the places that
\* normalize to one, in order
RECURSIVE normalize_places_keep_all(_)
normalize_places_keep_all(raws) ==
    IF raws = <<>> THEN <<>>
    ELSE <<IF Nameless(Head(raws)) THEN Head(raws) ELSE NormalizedPlace(Head(raws))>>
             \o normalize_places_keep_all(Tail(raws))
RECURSIVE normalize_places(_)
normalize_places(raws) ==
    IF raws = <<>> THEN <<>>
    ELSE IF Nameless(Head(raws)) THEN normalize_places(Tail(raws))
    ELSE <<NormalizedPlace(Head(raws))>> \o normalize_places(Tail(raws))

\* whether normalize_places(raws) raises: some named place does
PlacesRaise(raws) ==
    \E i \in 1..Len(raws) : ~Nameless(raws[i]) /\ PlaceRaises(raws[i])

\* _normalize_legacy_plan_format, lines 335-371.  The plans of the model carry
\* neither planId nor summary, so normalize_plan (lines 381-393) takes the
\* legacy branch.  A stop without a named place is skipped before its
\* duration is read; int(duration) raises on a string that is no number.
StopKept(stop) == "place" \in DOMAIN stop /\ ~Nameless(stop.place)
PlanRaises(plan) ==
    \E i \in 1..Len(plan.stops) :
        /\ StopKept(plan.stops[i])
        /\ \/ PlaceRaises(plan.stops[i].place)
           \/ Opt(plan.stops[i], "duration", Num(60)).j = "str"

NormalizedStop(stop) ==
    [place |-> NormalizedPlace(stop.place),
     duration |-> Opt(stop, "duration", Num(60)),
     startTime |-> Either(Opt(stop, "startTime", None),
                       Either(Opt(stop, "start_time", None), "19:00")),
     activity |-> Opt(stop, "activity", "Visit")]

RECURSIVE NormalizedStops(_)
NormalizedStops(stops) ==
    IF stops = <<>> THEN <<>>
    ELSE IF ~StopKept(Head(stops)) THEN NormalizedStops(Tail(stops))
    ELSE <<NormalizedStop(Head(stops))>> \o NormalizedStops(Tail(stops))

normalize_plan(plan) ==
    [name |-> Opt(plan, "name", "Unnamed Plan"),
     description |-> Opt(plan, "description", ""),
     vibe |-> Opt(plan, "vibe", "casual"),
     totalDuration |-> Opt(plan, "totalDuration", 0),
     totalDistance |-> Opt(plan, "totalDistance", 0),
     stops |-> NormalizedStops(plan.stops)]
    @@ Field("id", Either(Opt(plan, "id", None), None) # None, Opt(plan, "id", None))

(***************************************************************************)
(* GPTBackendClient.stream_chat_sse: the relay of the agent's SSE stream.  *)
(*                                                                         *)
(* A line of text is a record: its kind (k), whether a space follows the   *)
(* colon (sp), the event name after "event:" (name), and for a data line   *)
(* the payload text: which JSON value it encodes (val) and how it is       *)
(* written (fmt: "canon" as json.dumps writes it, "compact" for any other  *)
(* spelling of the same value, "invalid" for text json.loads rejects).     *)
(* A JSON object is a record of its keys; any other JSON value is the      *)
(* record [scalar |-> ...].                                                *)
(***************************************************************************)
MaxLines == 3

NoText == [fmt |-> "none", val |-> [scalar |-> ""]]
Blank == [k |-> "blank", sp |-> FALSE, name |-> "", text |-> NoText]
EventLine(sp, name) == [k |-> "event", sp |-> sp, name |-> name, text |-> NoText]
OtherLine == [k |-> "other", sp |-> FALSE, name |-> ": keep-alive", text |-> NoText]
DataLine(sp, fmt, val) ==
    [k |-> "data", sp |-> sp, name |-> "", text |-> [fmt |-> fmt, val |-> val]]

BarX == [name |-> "Bar X", id |-> "ChIJ1", types |-> <<"cocktail_bar">>,
         rating |-> Num(4), price_level |-> 5, formatted_address |-> <<"Calle Mayor 1", "Zaragoza">>,
         location |-> [lat |-> 41, lng |-> 0]]
CafeY == [name |-> "Cafe Y", db_id |-> "17", category |-> "cafe", rating |-> Str("n/a")]
NoName == [id |-> "ChIJ2", rating |-> Num(5)]
EmptyName == [name |-> "", id |-> "ChIJ3"]

GoodPlan == [name |-> "Tapas", stops |-> <<[place |-> BarX, duration |-> Num(45)],
                                            [place |-> NoName, duration |-> Str("soon")]>>]
BadPlan == [name |-> "Tapas", stops |-> <<[place |-> BarX, duration |-> Str("an hour")]>>]

EndPayloads ==
    { [content |-> "hi"],
      [content |-> "two places", places |-> <<NoName, BarX, EmptyName>>],
      [content |-> "bad place", places |-> <<BarX, CafeY>>],
      [content |-> "good plan", places |-> <<BarX, NoName>>, plan |-> GoodPlan],
      [content |-> "bad plan", places |-> <<NoName, BarX>>, plan |-> BadPlan] }

UpstreamLines ==
    { Blank, OtherLine, EventLine(TRUE, "end"), EventLine(FALSE, "token"),
      DataLine(TRUE, "invalid", [scalar |-> "[DONE"]),
      DataLine(TRUE, "canon", [scalar |-> "done"]),
      DataLine(FALSE, "compact", [content |-> "hi"]) }
        \cup { DataLine(TRUE, "canon", v) : v \in EndPayloads }

\* json.loads(line[5:].strip()) raises
LoadsRaises(text) == text.fmt = "invalid"
\* data.get(...) raises: the JSON value is no object
IsObject(val) == "scalar" \notin DOMAIN val

\* lines 151-159 raise: normalize_places or normalize_plan does
NormalizingRaises(val) ==
    \/ Opt(val, "places", <<>>) # <<>> /\ PlacesRaise(val.places)
    \/ "plan" \in DOMAIN val /\ PlanRaises(val.plan)

\* lines 151-159: data with places and plan normalized in place
Normalized(val) ==
    [k \in DOMAIN val |->
        IF k = "places" /\ val.places # <<>> THEN normalize_places(val.places)
        ELSE IF k = "plan" THEN normalize_plan(val.plan)
        ELSE val[k]]

\* lines 146-166: the data line of an end event
EndDataLine(line) ==
    IF \/ LoadsRaises(line.text)
       \/ ~IsObject(line.text.val)
       \/ NormalizingRaises(line.text.val)
    THEN line
    ELSE DataLine(TRUE, "canon", Normalized(line.text.val))

\* lines 132-176: what the loop body yields for one line
YieldedDroppingBlanks(line, event) ==
    IF line.k = "blank" THEN <<>>
    ELSE IF line.k = "data" /\ event = "end" THEN <<EndDataLine(line)>>
    ELSE <<line>>
Yielded(line, event) ==
    IF line.k = "data" /\ event = "end" THEN <<EndDataLine(line)>> ELSE <<line>>

\* lines 138 and 172: current_event after the line
EventAfter(line, event) ==
    IF line.k = "event" THEN line.name
    ELSE IF line.k = "data" THEN ""
    ELSE event

\* lines 178-185: the synthetic frame "event: error\ndata: {...}\n\n"
ErrorFrame(content) ==
    [k |-> "errorframe", sp |-> TRUE, name |-> "error",
     text |-> [fmt |-> "canon", val |-> [content |-> content]]]

\* the except clauses: yield the frame and fall off the end of the generator
OnFailureReraise(kind) == [rpc |-> "raised", frames |-> <<>>]
OnFailure(kind) ==
    [rpc |-> "done",
     frames |-> <<ErrorFrame(IF kind = "http_error"
                             THEN "Error del asistente: <status>"
                             ELSE "No pudimos conectar con el asistente. Intenta de nuevo.")>>]

RelayInit ==
    /\ rpc = "start"
    /\ received = <<>>
    /\ out = <<>>
    /\ current_event = ""
    /\ fate = "none"

\* lines 121-126: the request is answered 2xx and the body starts to stream
RelayOpen ==
    /\ rpc = "start"
    /\ rpc' = "relaying"
    /\ UNCHANGED <<received, out, current_event, fate>>
    /\ UNCHANGED exceptRelay

\* line 126 raises HTTPStatusError, or building/sending the request raises
RelayOpenFails ==
    /\ rpc = "start"
    /\ \E kind \in {"http_error", "exception"} :
        /\ fate' = kind
        /\ rpc' = OnFailure(kind).rpc
        /\ out' = out \o OnFailure(kind).frames
    /\ UNCHANGED <<received, current_event>>
    /\ UNCHANGED exceptRelay

\* one iteration of the async for
RelayLine ==
    /\ rpc = "relaying"
    /\ Len(received) < MaxLines
    /\ \E line \in UpstreamLines :
        /\ received' = Append(received, line)
        /\ out' = out \o Yielded(line, current_event)
        /\ current_event' = EventAfter(line, current_event)
    /\ UNCHANGED <<rpc, fate>>
    /\ UNCHANGED exceptRelay

\* aiter_lines() raises in mid-stream (the connection breaks)
RelayBreaks ==
    /\ rpc = "relaying"
    /\ fate' = "exception"
    /\ rpc' = OnFailure("exception").rpc
    /\ out' = out \o OnFailure("exception").frames
    /\ UNCHANGED <<received, current_event>>
    /\ UNCHANGED exceptRelay

\* the upstream closes the stream: the loop and the generator end
RelayEnds ==
    /\ rpc = "relaying"
    /\ rpc' = "done"
    /\ UNCHANGED <<received, out, current_event, fate>>
    /\ UNCHANGED exceptRelay

(***************************************************************************)
(* LangflowClient.stream_chat_sse: the alternate chat backend.             *)
(*                                                                         *)
(* The upstream body is read as blocks ended by a blank line.  A block is  *)
(* a record: kind "nodata" (no data: line), "badjson" (data that is no     *)
(* JSON), "scalar" (JSON that is no object) or "event" with the inner      *)
(* event name and its data.  A text is a sequence of pieces; a message     *)
(* text may end in the marker <!-- AUPHERE_PLACES:...:END_AUPHERE_PLACES   *)
(* -->, whose JSON parses ("ok") or not ("bad").                           *)
(***************************************************************************)
MaxBlocks == 3

Modes == {"recommend", "explore", "chitchat", "plan"}

\* self.flow_ids as __init__ builds it from the settings, lines 44-48
FlowIds(recommend, chitchat) ==
    [recommend |-> recommend, explore |-> recommend, chitchat |-> chitchat]

\* lines 133-134: self.flow_ids.get(mode) or self.flow_ids.get("recommend")
FlowIdOfNoFallback(ids, m) == IF m \in DOMAIN ids THEN ids[m] ELSE ""
FlowIdOf(ids, m) ==
    IF m \in DOMAIN ids /\ ids[m] # "" THEN ids[m] ELSE ids.recommend

MARKER == "<!-- AUPHERE_PLACES:{:END_AUPHERE_PLACES -->"
Text(body, marker, found) == [body |-> body, marker |-> marker, places |-> found]
Plain(x) == Text(<<x>>, "none", <<>>)

\* _extract_places_from_text, lines 337-365: <<clean_text, places>>
_extract_places_from_text(text) ==
    IF text.marker = "ok" THEN <<text.body, text.places>>
    ELSE IF text.marker = "bad" THEN <<Append(text.body, MARKER), <<>>>>
    ELSE <<text.body, <<>>>>

\* bool(text) of a message text
TextTruthy(text) == text.body # <<>> \/ text.marker # "none"

\* the category _normalize_places infers from the free-text type, lines 410-421
InferredCategory(place) ==
    LET category == Opt(place, "category", "other")
        has == TypeKeywords(Opt(place, "type", ""))
    IN IF category # "" /\ category # "other" THEN category
       ELSE IF "bar" \in has THEN "bar"
       ELSE IF "restaurant" \in has THEN "restaurant"
       ELSE IF has \cap {"cafe", "coffee"} # {} THEN "cafe"
       ELSE IF "club" \in has THEN "club"
       ELSE category

\* _normalize_places, lines 367-440: every dict of the list, reshaped
LangflowPlace(place) ==
    [id |-> Opt(place, "id", Opt(place, "place_id", "")),
     place_id |-> Opt(place, "place_id", Opt(place, "id", "")),
     name |-> Opt(place, "name", "Sin nombre"),
     category |-> InferredCategory(place),
     description |-> Opt(place, "description", ""),
     address |-> Opt(place, "address", ""),
     images |-> IF Opt(place, "images", <<>>) # <<>> THEN place.images
                ELSE IF Opt(place, "photo_url", "") # "" THEN <<place.photo_url>>
                ELSE <<>>]

RECURSIVE _normalize_places(_)
_normalize_places(list) ==
    IF list = <<>> THEN <<>>
    ELSE IF "nondict" \in DOMAIN Head(list) THEN _normalize_places(Tail(list))
    ELSE <<LangflowPlace(Head(list))>> \o _normalize_places(Tail(list))

\* lines 260-289 without the `not places` / `not accumulated_text` guards:
\* every source of the end event that holds something assigns it
EndResultOverwrites(r, found) ==
    LET structured == Opt(r, "structured_output", [none |-> TRUE])
        p1 == IF Opt(structured, "places", <<>>) # <<>>
              THEN _normalize_places(structured.places) ELSE found[1]
        t1 == IF Opt(structured, "response_text", "") # ""
              THEN <<structured.response_text>> ELSE found[2]
        data_obj == Opt(r, "data", [none |-> TRUE])
        p2 == IF Opt(data_obj, "places", <<>>) # <<>>
              THEN _normalize_places(data_obj.places) ELSE p1
        t2 == IF Opt(data_obj, "response_text", "") # ""
              THEN <<data_obj.response_text>> ELSE t1
        message == Opt(r, "message", [none |-> TRUE])
        msg_text == Opt(message, "text", Text(<<>>, "none", <<>>))
        taken == TextTruthy(msg_text)
        extracted == _extract_places_from_text(msg_text)
        p3 == IF taken /\ extracted[2] # <<>>
              THEN _normalize_places(extracted[2]) ELSE p2
        t3 == IF taken THEN extracted[1] ELSE t2
        msg_data == Opt(message, "data", [none |-> TRUE])
        p4 == IF Opt(msg_data, "places", <<>>) # <<>>
              THEN _normalize_places(msg_data.places) ELSE p3
    IN <<p4, t3>>

\* lines 260-289: one `results` object of the end event, applied to
\* <<places, accumulated_text>>
EndResult(r, found) ==
    LET structured == Opt(r, "structured_output", [none |-> TRUE])
        p1 == IF Opt(structured, "places", <<>>) # <<>> /\ found[1] = <<>>
              THEN _normalize_places(structured.places) ELSE found[1]
        t1 == IF Opt(structured, "response_text", "") # "" /\ found[2] = <<>>
              THEN <<structured.response_text>> ELSE found[2]
        data_obj == Opt(r, "data", [none |-> TRUE])
        p2 == IF Opt(data_obj, "places", <<>>) # <<>> /\ p1 = <<>>
              THEN _normalize_places(data_obj.places) ELSE p1
        t2 == IF Opt(data_obj, "response_text", "") # "" /\ t1 = <<>>
              THEN <<data_obj.response_text>> ELSE t1
        message == Opt(r, "message", [none |-> TRUE])
        msg_text == Opt(message, "text", Text(<<>>, "none", <<>>))
        taken == TextTruthy(msg_text) /\ t2 = <<>>
        extracted == _extract_places_from_text(msg_text)
        p3 == IF taken /\ extracted[2] # <<>> /\ p2 = <<>>
              THEN _normalize_places(extracted[2]) ELSE p2
        t3 == IF taken THEN extracted[1] ELSE t2
        msg_data == Opt(message, "data", [none |-> TRUE])
        p4 == IF Opt(msg_data, "places", <<>>) # <<>> /\ p3 = <<>>
              THEN _normalize_places(msg_data.places) ELSE p3
    IN <<p4, t3>>

RECURSIVE EndResults(_, _)
EndResults(results, found) ==
    IF results = <<>> THEN found
    ELSE EndResults(Tail(results), EndResult(Head(results), found))

Frame(event, content, found) == [event |-> event, content |-> content, places |-> found]

\* _format_sse_event("status", ...), line 155
StatusFrame == Frame("status", <<"Procesando tu consulta...">>, <<>>)

PlaceA == [id |-> "a", name |-> "Bar A", type |-> "cocktail_bar"]
PlaceB == [place_id |-> "b", category |-> "cafe", photo_url |-> "http://img/b"]
PlaceC == [id |-> "c", name |-> "Club C", category |-> "other", type |-> "night_club"]
NonDict == [nondict |-> TRUE]

TokenBlock(chunk) == [kind |-> "event", event |-> "token", data |-> [chunk |-> chunk]]
MessageBlock(sender, text, data) ==
    [kind |-> "event", event |-> "add_message",
     data |-> [sender |-> sender, text |-> text, data |-> data]]
\* results: the `results` objects of result.outputs[*].outputs[*], in order
EndBlock(results, text) ==
    [kind |-> "event", event |-> "end", data |-> [results |-> results, text |-> text]]
ErrorBlock(message) ==
    [kind |-> "event", event |-> "error", data |-> [message |-> message]]
NoData == [kind |-> "nodata", event |-> "", data |-> [none |-> TRUE]]
BadJson == [kind |-> "badjson", event |-> "", data |-> [none |-> TRUE]]
Scalar == [kind |-> "scalar", event |-> "", data |-> [none |-> TRUE]]
\* an add_message whose data is a string: inner_data.get raises
MessageOfString == [kind |-> "event", event |-> "add_message", data |-> [scalar |-> "x"]]
\* an event the mapping has no branch for
OtherEvent == [kind |-> "event", event |-> "message", data |-> [none |-> TRUE]]

FlowBlocks ==
    { NoData, BadJson, Scalar, MessageOfString, OtherEvent,
      TokenBlock("Ho"), TokenBlock(""),
      MessageBlock("Machine", Text(<<"Try Bar A">>, "ok", <<PlaceA, NonDict>>),
                   [places |-> <<PlaceB>>, response_text |-> "structured"]),
      MessageBlock("Machine", Text(<<>>, "none", <<>>),
                   [places |-> <<PlaceB>>, response_text |-> "structured"]),
      MessageBlock("User", Plain("hi"), [none |-> TRUE]),
      EndBlock(<<>>, "fallback"),
      EndBlock(<<[structured_output |-> [places |-> <<PlaceC>>, response_text |-> "so"],
                  data |-> [places |-> <<PlaceB>>, response_text |-> "do"],
                  message |-> [text |-> Text(<<"mt">>, "ok", <<PlaceA>>),
                               data |-> [places |-> <<PlaceA, PlaceB>>]]]>>, ""),
      EndBlock(<<[message |-> [text |-> Text(<<"mt">>, "bad", <<>>),
                               data |-> [places |-> <<PlaceA, PlaceB>>]]]>>, ""),
      ErrorBlock("boom") }

\* lines 291-294: the upstream error event: yield the frame and return
AfterErrorEventGoesOn == "streaming"
AfterErrorEvent == "done"

\* lines 322-331: the except clauses yield one error frame
FlowFailure(kind) ==
    Frame("error",
          IF kind = "http_error" THEN <<"Error del servicio: <status>">>
          ELSE <<"No pudimos conectar con el asistente. Intenta de nuevo.">>,
          <<>>)

\* the call: op, the flow id of the URL, whether a request went out, and how
\* send_message ended ("" for a stream)
FlowCall(op, id, called, result) ==
    [op |-> op, flow_id |-> id, called |-> called, result |-> result]
NoCall == FlowCall("none", "", FALSE, "")

FlowInit ==
    /\ mode \in Modes
    /\ flow_ids \in { FlowIds(r, c) : r \in {"", "flow-recommend"},
                                       c \in {"", "flow-chitchat"} }
    /\ fpc = "start"
    /\ blocks = <<>>
    /\ frames = <<>>
    /\ accumulated_text = <<>>
    /\ flow_places = <<>>
    /\ final_data = [none |-> TRUE]
    /\ ffate = "none"
    /\ flow_call = NoCall

\* lines 136-138: no flow id for the mode: one error frame and return
FlowNotConfigured ==
    /\ fpc = "start"
    /\ FlowIdOf(flow_ids, mode) = ""
    /\ frames' = <<Frame("error", <<"Flow no configurado para modo: ", mode>>, <<>>)>>
    /\ fpc' = "done"
    /\ ffate' = "not_configured"
    /\ UNCHANGED <<mode, flow_ids, blocks, accumulated_text, flow_places, final_data>>
    /\ flow_call' = FlowCall("stream", FlowIdOf(flow_ids, mode), FALSE, "")
    /\ UNCHANGED exceptFlow

\* line 155 and lines 165-171 when the backend answers 2xx
FlowOpen ==
    /\ fpc = "start"
    /\ FlowIdOf(flow_ids, mode) # ""
    /\ frames' = <<StatusFrame>>
    /\ fpc' = "streaming"
    /\ UNCHANGED <<mode, flow_ids, blocks, accumulated_text, flow_places, final_data, ffate>>
    /\ flow_call' = FlowCall("stream", FlowIdOf(flow_ids, mode), TRUE, "")
    /\ UNCHANGED exceptFlow

\* line 155, then the request fails: raise_for_status or the transport
FlowOpenFails ==
    /\ fpc = "start"
    /\ FlowIdOf(flow_ids, mode) # ""
    /\ \E kind \in {"http_error", "exception"} :
        /\ frames' = <<StatusFrame, FlowFailure(kind)>>
        /\ ffate' = kind
    /\ fpc' = "done"
    /\ UNCHANGED <<mode, flow_ids, blocks, accumulated_text, flow_places, final_data>>
    /\ flow_call' = FlowCall("stream", FlowIdOf(flow_ids, mode), TRUE, "")
    /\ UNCHANGED exceptFlow

\* lines 207-212
OnToken(b) ==
    /\ b.data.chunk # ""
    /\ accumulated_text' = Append(accumulated_text, b.data.chunk)
    /\ frames' = Append(frames, Frame("token", <<b.data.chunk>>, <<>>))
    /\ UNCHANGED <<fpc, flow_places, final_data, ffate>>

\* lines 214-242
OnAddMessage(b) ==
    LET d == b.data
        extracted == _extract_places_from_text(d.text)
        p1 == IF TextTruthy(d.text) /\ extracted[2] # <<>>
              THEN _normalize_places(extracted[2]) ELSE flow_places
        t1 == IF TextTruthy(d.text) THEN extracted[1] ELSE accumulated_text
        p2 == IF Opt(d.data, "places", <<>>) # <<>> /\ p1 = <<>>
              THEN _normalize_places(d.data.places) ELSE p1
        t2 == IF Opt(d.data, "response_text", "") # "" /\ t1 = <<>>
              THEN <<d.data.response_text>> ELSE t1
    IN /\ d.sender \in {"Machine", "AI", "assistant"}
       /\ flow_places' = p2
       /\ accumulated_text' = t2
       /\ UNCHANGED <<fpc, frames, final_data, ffate>>

\* lines 244-289
OnEnd(b) ==
    LET found == EndResults(b.data.results, <<flow_places, accumulated_text>>)
    IN /\ final_data' = b.data
       /\ flow_places' = found[1]
       /\ accumulated_text' = found[2]
       /\ UNCHANGED <<fpc, frames, ffate>>

\* lines 291-294
OnError(b) ==
    /\ frames' = Append(frames, Frame("error", <<b.data.message>>, <<>>))
    /\ fpc' = AfterErrorEvent
    /\ ffate' = "upstream_error"
    /\ UNCHANGED <<accumulated_text, flow_places, final_data>>

\* event_data.get / inner_data.get on a value that is no dict raises
\* AttributeError, which only the outer except Exception catches (line 327)
BlockRaises(b) ==
    \/ b.kind = "scalar"
    \/ b.kind = "event" /\ b.event = "add_message" /\ "scalar" \in DOMAIN b.data

BlockIgnored(b) ==
    \/ b.kind \in {"nodata", "badjson"}
    \/ b.kind = "event" /\ b.event \notin {"token", "add_message", "end", "error"}
    \/ b.kind = "event" /\ b.event = "token" /\ b.data.chunk = ""
    \/ /\ b.kind = "event" /\ b.event = "add_message" /\ ~BlockRaises(b)
       /\ b.data.sender \notin {"Machine", "AI", "assistant"}

\* one pass of the while loop of lines 180-298 over the next complete block
FlowBlock ==
    /\ fpc = "streaming"
    /\ Len(blocks) < MaxBlocks
    /\ \E b \in FlowBlocks :
        /\ blocks' = Append(blocks, b)
        /\ IF BlockRaises(b)
           THEN /\ frames' = Append(frames, FlowFailure("exception"))
                /\ fpc' = "done"
                /\ ffate' = "exception"
                /\ UNCHANGED <<accumulated_text, flow_places, final_data>>
           ELSE IF BlockIgnored(b)
           THEN UNCHANGED <<fpc, frames, accumulated_text, flow_places, final_data, ffate>>
           ELSE IF b.event = "token" THEN OnToken(b)
           ELSE IF b.event = "add_message" THEN OnAddMessage(b)
           ELSE IF b.event = "end" THEN OnEnd(b)
           ELSE OnError(b)
    /\ UNCHANGED <<mode, flow_ids>>
    /\ UNCHANGED flow_call
    /\ UNCHANGED exceptFlow

\* aiter_text() raises in mid-stream
FlowBreaks ==
    /\ fpc = "streaming"
    /\ frames' = Append(frames, FlowFailure("exception"))
    /\ fpc' = "done"
    /\ ffate' = "exception"
    /\ UNCHANGED <<mode, flow_ids, blocks, accumulated_text, flow_places, final_data>>
    /\ UNCHANGED flow_call
    /\ UNCHANGED exceptFlow

\* lines 300-320: the body is exhausted: the closing end frame
FlowEnds ==
    /\ fpc = "streaming"
    /\ LET end_content ==
               IF accumulated_text = <<>> /\ "text" \in DOMAIN final_data
                  /\ final_data.text # ""
               THEN <<final_data.text>> ELSE accumulated_text
       IN frames' = Append(frames, Frame("end", end_content, flow_places))
    /\ fpc' = "done"
    /\ UNCHANGED <<mode, flow_ids, blocks, accumulated_text, flow_places, final_data, ffate>>
    /\ UNCHANGED flow_call
    /\ UNCHANGED exceptFlow

\* send_message, lines 79-119: ValueError before any request when no flow
\* id results; otherwise the POST, whose failures are re-raised
send_message ==
    /\ fpc = "start"
    /\ IF FlowIdOf(flow_ids, mode) = ""
       THEN flow_call' = FlowCall("send", "", FALSE, "ValueError")
       ELSE \E result \in {"returned", "HTTPStatusError", "Exception"} :
               flow_call' = FlowCall("send", FlowIdOf(flow_ids, mode), TRUE, result)
    /\ fpc' = "done"
    /\ UNCHANGED <<mode, flow_ids, blocks, frames, accumulated_text, flow_places,
                   final_data, ffate>>
    /\ UNCHANGED exceptFlow

(***************************************************************************)
(* app/dependencies.py: verify_auth0_token and the two dependencies built  *)
(* on it.  A token is a record of its claims and of the one thing wrong    *)
(* with it ("" when nothing is).  The JWKS endpoint of the identity        *)
(* provider answers ("up") or cannot be reached ("down").                  *)
(***************************************************************************)
MaxAuthCalls == 2

Domains == {"", "auphere.eu.auth0.com"}

Token(defect, sub, email, ns_email) ==
    [defect |-> defect, sub |-> sub, email |-> email, ns_email |-> ns_email]
NoToken == Token("absent", "", None, None)

Tokens ==
    { Token("", "A", "a@x.io", None),
      Token("", "B", None, "b@x.io"),
      Token("expired", "A", "a@x.io", None),
      Token("malformed", "", None, None),
      Token("bad_signature", "A", "a@x.io", None),
      Token("wrong_audience", "B", None, None),
      Token("unknown_kid", "A", "a@x.io", None) }

NoUser == [id |-> "", email |-> ""]
Detail(text, reason) == [text |-> text, reason |-> reason]
NoDetail == Detail("", "")
Outcome(kind, status, detail, user) ==
    [kind |-> kind, status |-> status, detail |-> detail, user |-> user]
Unauthorized(detail) == Outcome("error", 401, detail, NoUser)

\* str(exc) of the HTTPException of lines 34-38, as the installed Starlette
\* writes it
HttpExceptionStrs == {"401: Auth0 not configured on server", ""}

\* lines 44-54: what PyJWKClient.get_signing_key_from_jwt and jwt.decode
\* raise, "" when they raise nothing: <<exception class, str(e)>>
Raised(token, jwks) ==
    IF token.defect = "malformed" THEN <<"InvalidTokenError", "Not enough segments">>
    ELSE IF jwks = "down"
    THEN <<"PyJWKClientError", "Fail to fetch data from the url">>
    ELSE IF token.defect = "unknown_kid"
    THEN <<"PyJWKClientError", "Unable to find a signing key that matches">>
    ELSE IF token.defect = "bad_signature"
    THEN <<"InvalidTokenError", "Signature verification failed">>
    ELSE IF token.defect = "expired"
    THEN <<"ExpiredSignatureError", "Signature has expired">>
    ELSE IF token.defect = "wrong_audience"
    THEN <<"InvalidTokenError", "Invalid audience">>
    ELSE <<"", "">>

\* lines 32-38: the HTTPException for a missing domain is raised inside the
\* try block, so the except Exception clause of lines 82-88 catches it
NotConfigured(http_str) == Unauthorized(Detail("Authentication failed: ", http_str))

\* verify_auth0_token, lines 29-88
verify_auth0_token(token, domain, jwks, http_str) ==
    IF domain = "" THEN NotConfigured(http_str)
    ELSE LET e == Raised(token, jwks)
         IN IF e[1] = "ExpiredSignatureError"
            THEN Unauthorized(Detail("Token has expired", ""))
            ELSE IF e[1] = "InvalidTokenError"
            THEN Unauthorized(Detail("Invalid authentication credentials: ", e[2]))
            ELSE IF e[1] # ""
            THEN Unauthorized(Detail("Authentication failed: ", e[2]))
            ELSE Outcome("user", 0, NoDetail,
                         [id |-> token.sub,
                          email |-> Either(token.email, token.ns_email)])

\* lines 125-128: except HTTPException: return None
OrAnonymousReraising(outcome) == outcome
OrAnonymous(outcome) ==
    IF outcome.kind = "error" THEN Outcome("anonymous", 0, NoDetail, NoUser) ELSE outcome

AuthCall(dep, token, jwks, outcome) ==
    [dep |-> dep, token |-> token, jwks |-> jwks, outcome |-> outcome]

AuthInit ==
    /\ auth0_domain \in Domains
    /\ authCalls = <<>>

\* get_current_user, lines 98-105
get_current_user ==
    /\ Len(authCalls) < MaxAuthCalls
    /\ \E token \in Tokens, jwks \in {"up", "down"}, http_str \in HttpExceptionStrs :
         authCalls' = Append(authCalls,
             AuthCall("get_current_user", token, jwks,
                      verify_auth0_token(token, auth0_domain, jwks, http_str)))
    /\ UNCHANGED auth0_domain
    /\ UNCHANGED exceptAuth

\* get_optional_user, lines 108-128; NoToken: no (bearer) Authorization header
get_optional_user ==
    /\ Len(authCalls) < MaxAuthCalls
    /\ \E token \in Tokens \cup {NoToken}, jwks \in {"up", "down"},
          http_str \in HttpExceptionStrs :
         authCalls' = Append(authCalls,
             AuthCall("get_optional_user", token, jwks,
                 IF token = NoToken THEN Outcome("anonymous", 0, NoDetail, NoUser)
                 ELSE OrAnonymous(verify_auth0_token(token, auth0_domain, jwks, http_str))))
    /\ UNCHANGED auth0_domain
    /\ UNCHANGED exceptAuth

(***************************************************************************)
(* app/services/google_places_popular_times.py: the popularity score.      *)
(***************************************************************************)
Hours == 0..23
Boosts == {0, 5, 10, 15}
NotScored == -1

\* min(100, x), lines 177 and 179
Min100Uncapped(x) == x
Min100(x) == IF x < 100 THEN x ELSE 100

\* _calculate_popularity, lines 149-181
_calculate_popularity(current_hour, is_weekend, boost) ==
    LET base == IF 12 <= current_hour /\ current_hour <= 15 THEN 70
                ELSE IF 19 <= current_hour /\ current_hour <= 22 THEN 85
                ELSE IF current_hour >= 23 \/ current_hour <= 2
                THEN (IF is_weekend THEN 60 ELSE 30)
                ELSE IF 6 <= current_hour /\ current_hour < 12 THEN 40
                ELSE IF 16 <= current_hour /\ current_hour < 19 THEN 55
                ELSE 10
        weekend == IF is_weekend THEN Min100(base + 10) ELSE base
    IN Min100(weekend + boost)

\* _generate_mock_popular_times, lines 118-133, at the hour datetime.now() gives
_generate_mock_popular_times(current_hour) ==
    [Monday |-> _calculate_popularity(current_hour, FALSE, 0),
     Tuesday |-> _calculate_popularity(current_hour, FALSE, 0),
     Wednesday |-> _calculate_popularity(current_hour, FALSE, 0),
     Thursday |-> _calculate_popularity(current_hour, FALSE, 5),
     Friday |-> _calculate_popularity(current_hour, TRUE, 10),
     Saturday |-> _calculate_popularity(current_hour, TRUE, 15),
     Sunday |-> _calculate_popularity(current_hour, TRUE, 0)]

PopInit ==
    /\ score_args \in [hour : Hours, is_weekend : BOOLEAN, boost : Boosts]
    /\ score = NotScored

PopAtRest ==
    /\ score_args = [hour |-> 0, is_weekend |-> FALSE, boost |-> 0]
    /\ score = NotScored

CalculatePopularity ==
    /\ score = NotScored
    /\ score' = _calculate_popularity(score_args.hour, score_args.is_weekend,
                                      score_args.boost)
    /\ UNCHANGED score_args
    /\ UNCHANGED exceptPop

(***************************************************************************)
(* normalize_place on the raw places an agent or the places service can    *)
(* send, and on its own result.                                            *)
(***************************************************************************)
\* a key that may be missing: the ways to supply it
Supplied(k, values) == {<<>>} \cup {k :> v : v \in values}

PriceLevels == {-3, 0, 3, 5, 99}

RawPlaces ==
    {[name |-> name] @@ ids @@ a @@ b @@ c @@ d @@ e @@ f @@ g :
        name \in {"Bar X", ""},
        ids \in {<<>>, [id |-> "ChIJ1"], [db_id |-> "17", id |-> "ChIJ1"]},
        a \in Supplied("priceLevel", PriceLevels),
        b \in Supplied("price_level", PriceLevels),
        c \in Supplied("description", {"Cocktails and tapas"}),
        d \in Supplied("editorial_summary", {"Lively cocktail bar"}),
        e \in Supplied("summary", {"Bar in the old town"}),
        f \in Supplied("images", {<<"https://img/1.jpg">>, <<"photo_reference:AUjq9jk">>}),
        g \in Supplied("rating", {Str("n/a")})}

NotNormalized == [name |-> ""]

NormInit ==
    /\ raw_place \in RawPlaces
    /\ norm_pc = "start"
    /\ first_pass = NotNormalized
    /\ second_pass = NotNormalized

NormAtRest ==
    /\ raw_place = [name |-> ""]
    /\ norm_pc = "start"
    /\ first_pass = NotNormalized
    /\ second_pass = NotNormalized

\* normalize_place(raw_place) returns None, line 37
NormalizeNameless ==
    /\ norm_pc = "start"
    /\ Nameless(raw_place)
    /\ norm_pc' = "none"
    /\ UNCHANGED <<raw_place, first_pass, second_pass>>
    /\ UNCHANGED exceptNorm

\* float(rating) raises, line 188
NormalizeRaises ==
    /\ norm_pc = "start"
    /\ ~Nameless(raw_place)
    /\ PlaceRaises(raw_place)
    /\ norm_pc' = "raised"
    /\ UNCHANGED <<raw_place, first_pass, second_pass>>
    /\ UNCHANGED exceptNorm

\* p = normalize_place(raw_place)
NormalizePlace ==
    /\ norm_pc = "start"
    /\ ~Nameless(raw_place)
    /\ ~PlaceRaises(raw_place)
    /\ first_pass' = NormalizedPlace(raw_place)
    /\ norm_pc' = "first"
    /\ UNCHANGED <<raw_place, second_pass>>
    /\ UNCHANGED exceptNorm

\* normalize_place(p)
NormalizeAgain ==
    /\ norm_pc = "first"
    /\ second_pass' = NormalizedPlace(first_pass)
    /\ norm_pc' = "second"
    /\ UNCHANGED <<raw_place, first_pass>>
    /\ UNCHANGED exceptNorm

(***************************************************************************)
(* normalize_places (utils/normalizers.py, lines 225-236), one step per    *)
(* iteration of its loop.                                                  *)
(***************************************************************************)
MaxPlaces == 3

\* the elements of the lists: named, with an empty name, without a name, the
\* empty dict, and one whose rating makes normalize_place raise
ListPlaces ==
    {[name |-> "Bar X", id |-> "ChIJ1", priceLevel |-> 5],
     [name |-> "Cafe Y", db_id |-> "17"],
     [name |-> ""],
     [id |-> "ChIJ2"],
     <<>>,
     [name |-> "Bad", rating |-> Str("n/a")]}

ListArg(items) == [null |-> FALSE, items |-> items]
NoList == [null |-> TRUE, items |-> <<>>]

RECURSIVE ListsUpTo(_)
ListsUpTo(n) ==
    IF n = 0 THEN {<<>>}
    ELSE ListsUpTo(n - 1)
           \cup {Append(l, e) : l \in {m \in ListsUpTo(n - 1) : Len(m) = n - 1},
                                e \in ListPlaces}

NpsInit ==
    /\ raw_places \in {NoList} \cup {ListArg(l) : l \in ListsUpTo(MaxPlaces)}
    /\ nps_pc = "start"
    /\ nps_i = 0
    /\ nps_norm = ""
    /\ normalized = <<>>

NpsAtRest ==
    /\ raw_places = NoList
    /\ nps_pc = "start"
    /\ nps_i = 0
    /\ nps_norm = ""
    /\ normalized = <<>>

\* lines 227-228: if not raw_places: return []
NormalizeNoPlaces ==
    /\ nps_pc = "start"
    /\ raw_places.null \/ raw_places.items = <<>>
    /\ normalized' = <<>>
    /\ nps_pc' = "done"
    /\ UNCHANGED <<raw_places, nps_i, nps_norm>>
    /\ UNCHANGED exceptNps

\* lines 230-234: one iteration: norm = normalize_place(place); if norm: append
NormalizeNextPlace ==
    /\ \/ nps_pc = "start" /\ ~raw_places.null /\ raw_places.items # <<>>
       \/ nps_pc = "loop"
    /\ nps_i < Len(raw_places.items)
    /\ LET place == raw_places.items[nps_i + 1]
       IN IF Nameless(place)
          THEN /\ nps_norm' = "None"
               /\ nps_pc' = "loop"
               /\ UNCHANGED normalized
          ELSE IF PlaceRaises(place)
          THEN /\ nps_norm' = "raised"
               /\ nps_pc' = "raised"
               /\ UNCHANGED normalized
          ELSE /\ nps_norm' = "dict"
               /\ nps_pc' = "loop"
               /\ normalized' = Append(normalized, NormalizedPlace(place))
    /\ nps_i' = nps_i + 1
    /\ UNCHANGED raw_places
    /\ UNCHANGED exceptNps

\* line 236: return normalized
NormalizePlacesReturns ==
    /\ nps_pc = "loop"
    /\ nps_i = Len(raw_places.items)
    /\ nps_pc' = "done"
    /\ UNCHANGED <<raw_places, nps_i, nps_norm, normalized>>
    /\ UNCHANGED exceptNps

(***************************************************************************)
(* app/services/redis_client.py and the cache use of                       *)
(* app/services/google_places_popular_times.py.                            *)
(*                                                                         *)
(* A cached value is a popular-times dictionary.  The result a caller sees *)
(* is a record: kind "None", "True", "False" or "value", and the value.    *)
(***************************************************************************)
MaxCacheOps == 2
MaxCacheTicks == 2
TickSeconds == 1800
cache_ttl == 3600
NoExpiry == -1

GoogleIds == {"ChIJ1", "ChIJ2"}
\* f"popular_times:{google_place_id}", line 45
CacheKey(google_place_id) == <<"popular_times:", google_place_id>>
\* the key the callers of the cache client use
CacheKeys == {CacheKey("ChIJ1")}

NoTimes == [Monday |-> 0, Tuesday |-> 0, Wednesday |-> 0, Thursday |-> 0,
            Friday |-> 0, Saturday |-> 0, Sunday |-> 0]
Absent == [kind |-> "None", v |-> NoTimes]
Bool(b) == [kind |-> IF b THEN "True" ELSE "False", v |-> NoTimes]
Value(v) == [kind |-> "value", v |-> v]

\* the hour datetime.now() gives during the live lookup
LookupHour == 20
LiveTimes == _generate_mock_popular_times(LookupHour)

\* Redis: SET / SETEX replace the entry of the key, an entry past its
\* expiry is gone
Written(store, key, v, ttl, clock) ==
    {e \in store : e.key # key}
        \cup {[key |-> key, v |-> v,
               expires |-> IF ttl = 0 THEN NoExpiry ELSE clock + ttl]}
Alive(e, clock) == e.expires = NoExpiry \/ clock < e.expires
Held(store, key, clock) == {e \in store : e.key = key /\ Alive(e, clock)}

\* the except branches of RedisClient, lines 27-29, 40-42, 49-51, 57-58
OnStoreFailurePropagates(op) ==
    [raised |-> TRUE, result |-> Absent]
OnStoreFailure(op) ==
    [raised |-> FALSE, result |-> IF op = "get" THEN Absent ELSE Bool(FALSE)]

\* RedisClient.get, lines 20-29
RedisGot(store, up, clock, key) ==
    IF ~up THEN OnStoreFailure("get")
    ELSE IF Held(store, key, clock) = {} THEN [raised |-> FALSE, result |-> Absent]
    ELSE [raised |-> FALSE,
          result |-> Value((CHOOSE e \in Held(store, key, clock) : TRUE).v)]

\* one call, as cache_log keeps it
CacheOp(op, key, up, at, outcome, live) ==
    [op |-> op, key |-> key, up |-> up, at |-> at, raised |-> outcome.raised,
     result |-> outcome.result, live |-> live]

CacheInit ==
    /\ cache_store = {}
    /\ redis_up \in BOOLEAN
    /\ cache_clock = 0
    /\ api_key \in {"", "AIza"}
    /\ cache_log = <<>>

CacheAtRest ==
    /\ cache_store = {}
    /\ redis_up = TRUE
    /\ cache_clock = 0
    /\ api_key = "AIza"
    /\ cache_log = <<>>

Logged(entry) ==
    /\ Len(cache_log) < MaxCacheOps
    /\ cache_log' = Append(cache_log, entry)

RedisGet ==
    \E key \in CacheKeys :
        /\ Logged(CacheOp("get", key, redis_up, cache_clock,
                          RedisGot(cache_store, redis_up, cache_clock, key), FALSE))
        /\ UNCHANGED <<cache_store, redis_up, cache_clock, api_key>>
        /\ UNCHANGED exceptCache

\* RedisClient.set, lines 31-42; json.dumps raises on a value that is not
\* serializable, inside the same try
RedisSet ==
    \E key \in CacheKeys, ttl \in {0, cache_ttl}, serializable \in BOOLEAN :
        /\ IF redis_up /\ serializable
           THEN /\ cache_store' = Written(cache_store, key, LiveTimes, ttl, cache_clock)
                /\ Logged(CacheOp("set", key, redis_up, cache_clock,
                                  [raised |-> FALSE, result |-> Bool(TRUE)], FALSE))
           ELSE /\ cache_store' = cache_store
                /\ Logged(CacheOp("set", key, redis_up, cache_clock,
                                  OnStoreFailure("set"), FALSE))
        /\ UNCHANGED <<redis_up, cache_clock, api_key>>
        /\ UNCHANGED exceptCache

\* RedisClient.delete, lines 44-51
RedisDelete ==
    \E key \in CacheKeys :
        /\ IF redis_up
           THEN /\ cache_store' = {e \in cache_store : e.key # key}
                /\ Logged(CacheOp("delete", key, redis_up, cache_clock,
                                  [raised |-> FALSE, result |-> Bool(TRUE)], FALSE))
           ELSE /\ cache_store' = cache_store
                /\ Logged(CacheOp("delete", key, redis_up, cache_clock,
                                  OnStoreFailure("delete"), FALSE))
        /\ UNCHANGED <<redis_up, cache_clock, api_key>>
        /\ UNCHANGED exceptCache

\* RedisClient.ping, lines 53-58
RedisPing ==
    /\ Logged(CacheOp("ping", CacheKey(""), redis_up, cache_clock,
                      IF redis_up THEN [raised |-> FALSE, result |-> Bool(TRUE)]
                      ELSE OnStoreFailure("ping"), FALSE))
    /\ UNCHANGED <<cache_store, redis_up, cache_clock, api_key>>
    /\ UNCHANGED exceptCache

\* what RedisClient defines; redis_client.setex is none of them
RedisClientMethods == {"get", "set", "delete", "ping"}

\* `await x` on what a plain method returned (None or a decoded value)
\* raises TypeError
Awaitable(result) == FALSE

\* _get_from_cache, lines 183-192: `await redis_client.get(key)` on the
\* synchronous RedisClient.get; the TypeError is caught and logged
_get_from_cache(store, up, clock, key) ==
    LET got == RedisGot(store, up, clock, key).result
    IN IF ~Awaitable(got) THEN Absent ELSE got

\* _set_in_cache, lines 194-201: `await redis_client.setex(...)`; the
\* AttributeError is caught and logged
_set_in_cache(store, key, value, ttl, up, clock) ==
    IF "setex" \notin RedisClientMethods THEN store
    ELSE IF up THEN Written(store, key, value, ttl, clock)
    ELSE store

\* get_popular_times, lines 26-62; live is what _fetch_from_google returns
\* (None when Google answers with a status other than OK, or on any error)
get_popular_times ==
    \E google_place_id \in GoogleIds \cup {""}, live \in {Absent, Value(LiveTimes)} :
        LET key == CacheKey(google_place_id)
            cached == _get_from_cache(cache_store, redis_up, cache_clock, key)
            returned(result, looked) ==
                Logged(CacheOp("get_popular_times", key, redis_up, cache_clock,
                               [raised |-> FALSE, result |-> result], looked))
        IN  /\ IF api_key = "" \/ google_place_id = ""
               THEN /\ live = Absent
                    /\ returned(Absent, FALSE)
                    /\ cache_store' = cache_store
               ELSE IF cached # Absent
               THEN /\ live = Absent
                    /\ returned(cached, FALSE)
                    /\ cache_store' = cache_store
               ELSE /\ returned(live, TRUE)
                    /\ cache_store' =
                         IF live # Absent
                         THEN _set_in_cache(cache_store, key, live.v, cache_ttl,
                                            redis_up, cache_clock)
                         ELSE cache_store
            /\ UNCHANGED <<redis_up, cache_clock, api_key>>
            /\ UNCHANGED exceptCache

CacheTick ==
    /\ cache_clock < MaxCacheTicks * TickSeconds
    /\ cache_clock' = cache_clock + TickSeconds
    /\ UNCHANGED <<cache_store, redis_up, api_key, cache_log>>
    /\ UNCHANGED exceptCache

RedisFails ==
    /\ redis_up
    /\ redis_up' = FALSE
    /\ UNCHANGED <<cache_store, cache_clock, api_key, cache_log>>
    /\ UNCHANGED exceptCache

RedisRecovers ==
    /\ ~redis_up
    /\ redis_up' = TRUE
    /\ UNCHANGED <<cache_store, cache_clock, api_key, cache_log>>
    /\ UNCHANGED exceptCache

(***************************************************************************)
(* app/database.py: get_db.  FastAPI runs the generator once per request   *)
(* that depends on it: up to the yield before the handler, and past it     *)
(* (or with the handler's exception thrown into it) after the handler.     *)
(***************************************************************************)
MaxRequests == 3
Requests == 1..MaxRequests
NoSession == 0

\* leaving `async with AsyncSessionLocal() as session`, line 29: __aexit__
\* closes the session however the block is left
LeftOpenOnRaise(open, session, how) ==
    IF how = "raised" THEN open ELSE open \ {session}
LeftOpen(open, session, how) == open \ {session}

DbInit ==
    /\ db_pc = [r \in Requests |-> "waiting"]
    /\ db_session = [r \in Requests |-> NoSession]
    /\ db_open = {}
    /\ db_closed = {}
    /\ db_pending = {}
    /\ db_committed = {}
    /\ next_session = 0

DbAtRest == DbInit

\* a request arrives: AsyncSessionLocal() makes a session, the generator
\* yields it to the handler (lines 29-30)
get_db(r) ==
    /\ db_pc[r] = "waiting"
    /\ next_session' = next_session + 1
    /\ db_session' = [db_session EXCEPT ![r] = next_session + 1]
    /\ db_open' = db_open \cup {next_session + 1}
    /\ db_pc' = [db_pc EXCEPT ![r] = "running"]
    /\ UNCHANGED <<db_closed, db_pending, db_committed>>
    /\ UNCHANGED exceptDb

\* the handler changes rows through its session
HandlerWrites(r) ==
    /\ db_pc[r] = "running"
    /\ db_session[r] \notin db_pending
    /\ db_pending' = db_pending \cup {db_session[r]}
    /\ UNCHANGED <<db_pc, db_session, db_open, db_closed, db_committed, next_session>>
    /\ UNCHANGED exceptDb

\* the handler commits; get_db never does
HandlerCommits(r) ==
    /\ db_pc[r] = "running"
    /\ db_session[r] \in db_pending
    /\ db_pending' = db_pending \ {db_session[r]}
    /\ db_committed' = db_committed \cup {db_session[r]}
    /\ UNCHANGED <<db_pc, db_session, db_open, db_closed, next_session>>
    /\ UNCHANGED exceptDb

\* the handler is done: the generator is resumed, or the exception is thrown
\* into it at the yield, and the async with block is left
HandlerEnds(r, how) ==
    /\ db_pc[r] = "running"
    /\ db_open' = LeftOpen(db_open, db_session[r], how)
    /\ db_closed' = db_closed \cup (db_open \ db_open')
    /\ db_pending' = db_pending \cap db_open'
    /\ db_pc' = [db_pc EXCEPT ![r] = how]
    /\ UNCHANGED <<db_session, db_committed, next_session>>
    /\ UNCHANGED exceptDb

GetDb == \E r \in Requests : get_db(r)
Writes == \E r \in Requests : HandlerWrites(r)
Commits == \E r \in Requests : HandlerCommits(r)
HandlerReturns == \E r \in Requests : HandlerEnds(r, "returned")
HandlerRaises == \E r \in Requests : HandlerEnds(r, "raised")

(***************************************************************************)
(* app/routers/places.py: get_place_details, with the enrichment helpers   *)
(* of app/utils/amenities_mapper.py and app/utils/feature_inference.py.    *)
(*                                                                         *)
(* A payload of the places service is a record of the keys it carries.  A  *)
(* JSON array of labels is tagged so that null can stand in its place; the *)
(* labels are kept as a set (the code sorts or de-duplicates them).        *)
(***************************************************************************)
JArr(items) == [null |-> FALSE, items |-> items]
JNull == [null |-> TRUE, items |-> {}]
\* bool(x) of an array or null
Filled(x) == ~x.null /\ x.items # {}

PlacePayloads ==
    {[name |-> "Bar X"] @@ a @@ b @@ c @@ d @@ e @@ f :
        a \in Supplied("id", {"p1"}),
        b \in Supplied("google_place_id", {"ChIJ1"}),
        c \in Supplied("main_categories", {<<"bar">>}),
        d \in Supplied("reviews", {<<[text |-> "great wifi"]>>, <<[text |-> None]>>}),
        e \in Supplied("amenities", {JArr({"Live Music"})}),
        f \in Supplied("features", {JArr({"Cozy"}), JNull})}

\* GOOGLE_TYPE_TO_AMENITIES, amenities_mapper.py lines 9-26, for the types of
\* the payloads
AmenitiesOfType(t) ==
    CASE t = "bar" -> {"Bar", "Drinks"}
      [] t = "restaurant" -> {"Dining", "Table Service"}
      [] OTHER -> {}

\* GOOGLE_AMENITY_KEYWORDS, lines 29-102, on the review texts of the payloads
AmenitiesOfText(text) ==
    CASE text = "great wifi" -> {"Free WiFi"}
      [] OTHER -> {}

\* extract_amenities_from_reviews, lines 189-215: review.get("text", "")
\* is None for a review whose text is null, and None.lower() raises
AmenitiesRaise(place_data) ==
    \E i \in 1..Len(Opt(place_data, "reviews", <<>>)) : place_data.reviews[i].text = None

\* SERVICE_ATTRIBUTES, lines 105-124, read by extract_amenities_from_attributes
\* (lines 151-182) from the payload itself when it has no custom_attributes
AmenitiesOfAttributes(place_data) ==
    IF Opt(place_data, "live_music", FALSE) = TRUE THEN {"Live Music"} ELSE {}

\* lines 218-254 without step 4: the amenities the payload already carries
\* are replaced, not merged
extract_amenities_replacing(place_data) ==
    LET types == Opt(place_data, "main_categories", <<>>)
        reviews == Opt(place_data, "reviews", <<>>)
    IN UNION {AmenitiesOfType(types[i]) : i \in 1..Len(types)}
         \cup AmenitiesOfAttributes(place_data)
         \cup UNION {AmenitiesOfText(reviews[i].text) : i \in 1..Len(reviews)}

\* extract_amenities_from_google, lines 218-254, when nothing raises: the set
\* all_amenities before line 254 sorts it
extract_amenities_from_google(place_data) ==
    LET types == Opt(place_data, "main_categories", <<>>)
        reviews == Opt(place_data, "reviews", <<>>)
    IN UNION {AmenitiesOfType(types[i]) : i \in 1..Len(types)}
         \cup AmenitiesOfAttributes(place_data)
         \cup UNION {AmenitiesOfText(reviews[i].text) : i \in 1..Len(reviews)}
         \cup Opt(place_data, "amenities", JArr({})).items

\* enrich_place_with_amenities, lines 257-274
enrich_place_with_amenities(place_data) ==
    [amenities |-> JArr(extract_amenities_from_google(place_data))] @@ place_data

\* AMENITY_TO_FEATURE, feature_inference.py lines 9-44, matched as line 101
\* matches, for the amenities of the payloads
FeaturesOfAmenity(a) ==
    CASE a = "Bar" -> {"Full Bar", "Sports Bar"}
      [] a = "Free WiFi" -> {"Free WiFi"}
      [] a = "Live Music" -> {"Live Music"}
      [] OTHER -> {}

\* CATEGORY_FEATURES, lines 47-53
FeaturesOfCategory(c) ==
    CASE c = "bar" -> {"Bar Seating", "Drinks Menu"}
      [] OTHER -> {}

\* infer_features, lines 211-267
infer_features(place_data) ==
    LET amenities == Opt(place_data, "amenities", JArr({})).items
        main_categories == Opt(place_data, "main_categories", <<>>)
    IN UNION {FeaturesOfAmenity(a) : a \in amenities}
         \cup UNION {FeaturesOfCategory(main_categories[i]) : i \in 1..Len(main_categories)}

\* enrich_place_with_features, line 287: None + list raises TypeError
FeaturesRaise(place_data) == Opt(place_data, "features", JArr({})).null

\* enrich_place_with_features, lines 270-293
enrich_place_with_features(place_data) ==
    [features |-> JArr(Opt(place_data, "features", JArr({})).items
                         \cup infer_features(place_data))] @@ place_data

\* lines 204-208: both enrichments in one try; enrich_place_with_amenities
\* has written its key when enrich_place_with_features raises
Enriched(place_data) ==
    IF AmenitiesRaise(place_data) THEN place_data
    ELSE IF FeaturesRaise(enrich_place_with_amenities(place_data))
    THEN enrich_place_with_amenities(place_data)
    ELSE enrich_place_with_features(enrich_place_with_amenities(place_data))

\* lines 211-214
IdsRestored(place_data, original) ==
    Field("id", "id" \notin DOMAIN place_data /\ "id" \in DOMAIN original,
          Opt(original, "id", ""))
      @@ Field("google_place_id",
               "google_place_id" \notin DOMAIN place_data
                   /\ "google_place_id" \in DOMAIN original,
               Opt(original, "google_place_id", ""))
      @@ place_data

\* _map_place_record, lines 415-483, for the keys the payloads carry
_map_place_record(place_data) ==
    [place_id |-> Either(Opt(place_data, "id", ""),
                         Either(Opt(place_data, "google_place_id", ""), "unknown")),
     name |-> Opt(place_data, "name", "Unknown Place"),
     types |-> Opt(place_data, "main_categories", <<>>),
     custom_attributes |->
         Field("main_categories", "main_categories" \in DOMAIN place_data,
               Opt(place_data, "main_categories", <<>>))
           @@ Field("google_place_id", "google_place_id" \in DOMAIN place_data,
                    Opt(place_data, "google_place_id", ""))]

\* what the router sees of popular_times_service.get_popular_times
Lookups ==
    {[raised |-> FALSE, result |-> Absent],
     [raised |-> FALSE, result |-> Value(LiveTimes)],
     [raised |-> TRUE, result |-> Absent]}
NotLookedUp == [raised |-> FALSE, result |-> Absent]

\* the except branches of lines 207-208 and 222-223 log and go on
OnEnrichmentFailureAborts(response) ==
    [status |-> 500, detail |-> "Enrichment failed"]
OnEnrichmentFailure(response) == response

\* what places_service.get_place_details did, and lines 174-191
UpstreamOutcomes == {"ok", "404", "503", "RequestError", "Exception"}
UpstreamFailure(upstream) ==
    CASE upstream = "404" -> [status |-> 404, detail |-> "Place not found"]
      [] upstream = "503" -> [status |-> 503, detail |-> "Places service error: "]
      [] upstream = "RequestError" ->
            [status |-> 502, detail |-> "Failed to reach places service: "]
      [] OTHER -> [status |-> 500, detail |-> "Failed to get place details: "]

\* get_place_details, lines 193-242, once the places service has answered
PlaceDetails(payload, lookup) ==
    LET place_data == IdsRestored(Enriched(payload), payload)
        looked == "google_place_id" \in DOMAIN place_data
        popular_times == IF looked /\ ~lookup.raised THEN lookup.result ELSE Absent
        place_response_ == _map_place_record(place_data)
        attached ==
            Field("reviews", Opt(payload, "reviews", <<>>) # <<>>,
                  Opt(payload, "reviews", <<>>))
              @@ Field("features", Filled(Opt(place_data, "features", JNull)),
                       Opt(place_data, "features", JNull))
              @@ Field("amenities", Filled(Opt(place_data, "amenities", JNull)),
                       Opt(place_data, "amenities", JNull))
              @@ Field("popular_times", popular_times # Absent, popular_times.v)
        response ==
            [status |-> 200,
             body |-> [place_response_ EXCEPT
                          !.custom_attributes = attached @@ place_response_.custom_attributes]]
    IN IF AmenitiesRaise(payload) \/ FeaturesRaise(enrich_place_with_amenities(payload))
          \/ (looked /\ lookup.raised)
       THEN OnEnrichmentFailure(response)
       ELSE response

NoPlaceRequest ==
    [place_id |-> "", upstream |-> "", payload |-> [name |-> ""], lookup |-> NotLookedUp]

PlaceInit ==
    /\ place_request = NoPlaceRequest
    /\ place_response = [status |-> 0]

PlaceAtRest == PlaceInit

get_place_details ==
    \E place_id \in {"p1"}, upstream \in UpstreamOutcomes,
       payload \in PlacePayloads, lookup \in Lookups :
        /\ upstream # "ok" => payload = [name |-> "Bar X"] /\ lookup = NotLookedUp
        /\ "google_place_id" \notin DOMAIN payload => lookup = NotLookedUp
        /\ place_request' = [place_id |-> place_id, upstream |-> upstream,
                             payload |-> payload, lookup |-> lookup]
        /\ place_response' = IF upstream = "ok" THEN PlaceDetails(payload, lookup)
                             ELSE UpstreamFailure(upstream)
        /\ UNCHANGED exceptPlace

(***************************************************************************)
(* The params of GET and POST /places/search (routers/places.py).  Lengths *)
(* are in metres: radius_km 0.1 is 100.                                    *)
(***************************************************************************)
\* config.py, line 24
places_service_default_city == "Zaragoza"

\* what a request may give under a text key: nothing, "", or a text
SearchCities == Supplied("city", {"", "Madrid", "Zaragoza"})
SearchRadii == {100, 5000, 50000}

NoSearch == [method |-> "none"]

SearchInit ==
    /\ search_request = NoSearch
    /\ search_params = [page |-> 0, limit |-> 0]

SearchAtRest == SearchInit

\* search_places_get, lines 25-61: the params of the GET endpoint
GetSearchParams(request) ==
    [page |-> 1, limit |-> 20]
      @@ (IF Opt(request, "city", "") # "" THEN [city |-> request.city]
          ELSE IF Opt(request, "q", "") = ""
          THEN [city |-> places_service_default_city]
          ELSE <<>>)
      @@ Field("q", Opt(request, "q", "") # "", Opt(request, "q", ""))
      @@ Field("lat", "lat" \in DOMAIN request, Opt(request, "lat", 0))
      @@ Field("radius_km", "radius_km" \in DOMAIN request, Opt(request, "radius_km", 0))
      @@ Field("type", Opt(request, "type", "") # "", Opt(request, "type", ""))

\* line 346: city = request.city or settings.places_service_default_city
CityOf(request) ==
    IF Opt(request, "city", "") # "" THEN request.city
    ELSE places_service_default_city

\* _build_search_params, lines 339-369: the params of the POST endpoint
_build_search_params(request) ==
    [page |-> 1, limit |-> 20]
      @@ Field("city", CityOf(request) # "", CityOf(request))
      @@ Field("q", Opt(request, "query", "") # "", Opt(request, "query", ""))
      @@ Field("lat", "latitude" \in DOMAIN request, Opt(request, "latitude", 0))
      @@ Field("radius_km", request.radius # 0,
               IF request.radius > 100 THEN request.radius ELSE 100)
      @@ Field("type", Opt(request, "categories", <<>>) # <<>>,
               Opt(request, "categories", <<"">>)[1])

\* GET /places/search
search_places_get ==
    \E a \in SearchCities, b \in Supplied("q", {"", "tapas"}),
       c \in Supplied("lat", {41}), d \in Supplied("radius_km", SearchRadii),
       e \in Supplied("type", {"bar"}) :
        LET request == [method |-> "GET"] @@ a @@ b @@ c @@ d @@ e
        IN /\ search_request' = request
           /\ search_params' = GetSearchParams(request)
           /\ UNCHANGED exceptSearch

\* POST /places/search; radius has the default of models/places.py, line 42
search_places ==
    \E a \in SearchCities, b \in Supplied("query", {"", "tapas"}),
       c \in Supplied("latitude", {41}), radius \in SearchRadii,
       e \in Supplied("categories", {<<"bar", "cafe">>}) :
        LET request == [method |-> "POST", radius |-> radius] @@ a @@ b @@ c @@ e
        IN /\ search_request' = request
           /\ search_params' = _build_search_params(request)
           /\ UNCHANGED exceptSearch

(***************************************************************************)
(* utils/analytics.py: the module globals, the tracking calls and the      *)
(* shutdown, in one process.                                               *)
(***************************************************************************)
MaxTrackCalls == 3

AnalyticsSettings ==
    [environment : {"development", "production"},
     POSTHOG_AVAILABLE : BOOLEAN,
     posthog_enabled : BOOLEAN,
     posthog_api_key : {"", "phc_key"}]

NoTrackCall == [op |-> "none", sent |-> FALSE, collector_raised |-> FALSE, raised |-> FALSE]

AnalyticsInit ==
    /\ an_settings \in AnalyticsSettings
    /\ an_loaded = FALSE
    /\ _posthog_client = FALSE
    /\ _is_production = FALSE
    /\ an_constructed = 0
    /\ an_warnings = 0
    /\ an_calls = 0
    /\ an_last = NoTrackCall

AnalyticsAtRest ==
    /\ an_settings = [environment |-> "development", POSTHOG_AVAILABLE |-> TRUE,
                      posthog_enabled |-> TRUE, posthog_api_key |-> ""]
    /\ an_loaded = FALSE
    /\ _posthog_client = FALSE
    /\ _is_production = FALSE
    /\ an_constructed = 0
    /\ an_warnings = 0
    /\ an_calls = 0
    /\ an_last = NoTrackCall

\* _init_analytics, lines 48-80: whether it constructs a client, and whether
\* it logs a warning
InitConstructs ==
    /\ an_settings.environment = "production"
    /\ an_settings.POSTHOG_AVAILABLE
    /\ an_settings.posthog_enabled
    /\ an_settings.posthog_api_key # ""
InitWarns ==
    /\ an_settings.environment = "production"
    /\ \/ ~an_settings.POSTHOG_AVAILABLE
       \/ an_settings.posthog_enabled /\ an_settings.posthog_api_key = ""

\* _init_analytics, lines 48-80
_init_analytics ==
    /\ _is_production' = (an_settings.environment = "production")
    /\ _posthog_client' = (_posthog_client \/ InitConstructs)
    /\ an_constructed' = an_constructed + (IF InitConstructs THEN 1 ELSE 0)
    /\ an_warnings' = an_warnings + (IF InitWarns THEN 1 ELSE 0)

\* line 503: the module initializes when it is imported
ModuleLoad ==
    /\ ~an_loaded
    /\ an_loaded' = TRUE
    /\ _init_analytics
    /\ UNCHANGED <<an_settings, an_calls, an_last>>
    /\ UNCHANGED exceptAnalytics

\* get_posthog_client, lines 83-90, inside a production call
get_posthog_client ==
    IF ~_posthog_client /\ _is_production
    THEN _init_analytics
    ELSE UNCHANGED <<_posthog_client, _is_production, an_constructed, an_warnings>>

\* a tracking call: the development branch returns after logging; the
\* production branch gets the client and sends with it.  guarded: the send is
\* inside a try that logs the exception
TrackingCall(op, guarded, collector_raises) ==
    /\ an_loaded
    /\ an_calls < MaxTrackCalls
    /\ an_calls' = an_calls + 1
    /\ IF ~_is_production
       THEN /\ UNCHANGED <<_posthog_client, _is_production, an_constructed, an_warnings>>
            /\ an_last' = [NoTrackCall EXCEPT !.op = op]
       ELSE /\ get_posthog_client
            /\ an_last' = [op |-> op,
                           sent |-> _posthog_client',
                           collector_raised |-> _posthog_client' /\ collector_raises,
                           raised |-> _posthog_client' /\ collector_raises /\ ~guarded]
    /\ UNCHANGED <<an_settings, an_loaded>>
    /\ UNCHANGED exceptAnalytics

\* identify_user, lines 107-133: client.identify outside any try
identify_user == \E collector_raises \in BOOLEAN :
    TrackingCall("identify_user", FALSE, collector_raises)

\* track_event, lines 136-171: client.capture inside try / except Exception
track_event == \E collector_raises \in BOOLEAN :
    TrackingCall("track_event", TRUE, collector_raises)

\* set_user_properties, lines 174-198: client.identify outside any try
set_user_properties == \E collector_raises \in BOOLEAN :
    TrackingCall("set_user_properties", FALSE, collector_raises)

\* track_api_request .. track_error, lines 204-302: each delegates to
\* track_event
track_wrapper == \E collector_raises \in BOOLEAN,
                    op \in {"track_api_request", "track_plan_created", "track_plan_updated",
                            "track_search_executed", "track_error"} :
    TrackingCall(op, TRUE, collector_raises)

\* shutdown_analytics, lines 454-463
shutdown_analytics ==
    /\ an_loaded
    /\ an_calls < MaxTrackCalls
    /\ an_calls' = an_calls + 1
    /\ _posthog_client' = FALSE
    /\ an_last' = [NoTrackCall EXCEPT !.op = "shutdown_analytics"]
    /\ UNCHANGED <<an_settings, an_loaded, _is_production, an_constructed, an_warnings>>
    /\ UNCHANGED exceptAnalytics

(***************************************************************************)
(* The amenities enrichment applied twice (utils/amenities_mapper.py).     *)
(***************************************************************************)
Elements(list) == {list[i] : i \in 1..Len(list)}

\* the order sorted() gives the amenity names of the payloads
AmenityOrder ==
    <<"Bar", "Dining", "Drinks", "Free WiFi", "Live Music", "Table Service", "Zoo">>

\* sorted(list(all_amenities)), line 254
sorted(amenities) == SelectSeq(AmenityOrder, LAMBDA a : a \in amenities)

\* the amenities lists a payload may carry: unsorted, repeated, empty
AmenityLists ==
    {<<>>, <<"Live Music">>, <<"Zoo", "Bar">>, <<"Bar", "Bar">>,
     <<"Live Music", "Free WiFi">>}

AmenPayloads ==
    {[name |-> "Bar X"] @@ a @@ b @@ c @@ d :
        a \in Supplied("main_categories", {<<"bar">>, <<"restaurant">>}),
        b \in Supplied("reviews", {<<[text |-> "great wifi"]>>, <<[text |-> None]>>}),
        c \in Supplied("amenities", AmenityLists),
        d \in Supplied("live_music", {TRUE})}

\* line 249-251: all_amenities.update(existing_amenities) takes the elements
\* of the list the payload carries
WithAmenitiesSet(place_data) ==
    [k \in DOMAIN place_data |->
        IF k = "amenities" THEN JArr(Elements(place_data[k])) ELSE place_data[k]]

\* extract_amenities_from_google, lines 218-254: the sorted list it returns
AmenitiesList(place_data) ==
    sorted(extract_amenities_from_google(WithAmenitiesSet(place_data)))

AmenInit ==
    /\ amen_place \in AmenPayloads
    /\ amen_sent = amen_place
    /\ amen_pc = "start"
    /\ amen_once = <<>>
    /\ amen_twice = <<>>

AmenAtRest ==
    /\ amen_place = [name |-> "Bar X"]
    /\ amen_sent = amen_place
    /\ amen_pc = "start"
    /\ amen_once = <<>>
    /\ amen_twice = <<>>

\* enrich_place_with_amenities, lines 257-273: the first call
EnrichOnce ==
    /\ amen_pc = "start"
    /\ ~AmenitiesRaise(amen_place)
    /\ amen_once' = AmenitiesList(amen_place)
    /\ amen_place' = [amenities |-> AmenitiesList(amen_place)] @@ amen_place
    /\ amen_pc' = "once"
    /\ UNCHANGED <<amen_sent, amen_twice>>
    /\ UNCHANGED exceptAmen

\* line 207: a review with a null text raises out of the first call
EnrichRaises ==
    /\ amen_pc = "start"
    /\ AmenitiesRaise(amen_place)
    /\ amen_pc' = "raised"
    /\ UNCHANGED <<amen_sent, amen_place, amen_once, amen_twice>>
    /\ UNCHANGED exceptAmen

\* enrich_place_with_amenities on the payload the first call returned
EnrichTwice ==
    /\ amen_pc = "once"
    /\ amen_twice' = AmenitiesList(amen_place)
    /\ amen_place' = [amenities |-> AmenitiesList(amen_place)] @@ amen_place
    /\ amen_pc' = "twice"
    /\ UNCHANGED <<amen_sent, amen_once>>
    /\ UNCHANGED exceptAmen

(***************************************************************************)
(* patch_plan with ai_edit, request by request.  Each request has its own  *)
(* session (get_db) and suspends at its three awaits: the SELECT (line     *)
(* 299), edit_plan (line 328) and the commit (line 371).  The row holds    *)
(* no version column and the UPDATE of the flush names the row by its      *)
(* primary key only, so the last commit of a column wins.                  *)
(***************************************************************************)
MaxEditors == 3
Editors == 1..MaxEditors
EditTexts == [r \in Editors |-> <<"swap stop", r>>]

StoredAtFirst ==
    {EmptyMeta, Meta(NoEdits, {"source=chat"}),
     Meta(EditList(<<[at |-> 0, edit |-> <<"swap stop", 0>>, agent_summary |-> "done"]>>), {})}

NotLoaded == [pc |-> "start", loaded |-> EmptyMeta, assigned |-> EmptyMeta]

ConcInit ==
    /\ conc_stored \in StoredAtFirst
    /\ conc_req = [r \in Editors |-> NotLoaded]
    /\ conc_now = 0

ConcAtRest ==
    /\ conc_stored = EmptyMeta
    /\ conc_req = [r \in Editors |-> NotLoaded]
    /\ conc_now = 0

\* lines 298-300: the session of the request loads the row
EditorLoads(r) ==
    /\ conc_req[r].pc = "start"
    /\ conc_req' = [conc_req EXCEPT ![r] =
                       [pc |-> "loaded", loaded |-> conc_stored, assigned |-> conc_stored]]
    /\ UNCHANGED <<conc_stored, conc_now>>
    /\ UNCHANGED exceptConc

\* lines 328-334: edit_plan raised or refused, the request ends with 502 or
\* 400 and writes nothing
EditorRejected(r) ==
    /\ conc_req[r].pc = "loaded"
    /\ conc_req' = [conc_req EXCEPT ![r].pc = "rejected"]
    /\ UNCHANGED <<conc_stored, conc_now>>
    /\ UNCHANGED exceptConc

\* lines 336-370: edit_plan succeeded; the audit entry is appended to what
\* the session loaded and assigned to plan.extra_data
EditorAssigns(r) ==
    /\ conc_req[r].pc = "loaded"
    /\ conc_now' = conc_now + 1
    /\ conc_req' = [conc_req EXCEPT
                       ![r].pc = "assigned",
                       ![r].assigned =
                           Audited(conc_req[r].loaded,
                                   AuditEntry(conc_now + 1, EditTexts[r], "done"))]
    /\ UNCHANGED conc_stored
    /\ UNCHANGED exceptConc

\* line 371: the flush writes the columns it found changed (FlushedExtra: an
\* extra_data dict that was loaded non-empty is the loaded object itself and
\* is left out of the UPDATE)
Committed(stored, loaded, assigned) ==
    IF FlushedExtra(loaded, assigned) = assigned /\ assigned # loaded
    THEN assigned
    ELSE stored

EditorCommits(r) ==
    /\ conc_req[r].pc = "assigned"
    /\ conc_stored' = Committed(conc_stored, conc_req[r].loaded, conc_req[r].assigned)
    /\ conc_req' = [conc_req EXCEPT ![r].pc = "done"]
    /\ UNCHANGED conc_now
    /\ UNCHANGED exceptConc

Loads == \E r \in Editors : EditorLoads(r)
Rejected == \E r \in Editors : EditorRejected(r)
Assigns == \E r \in Editors : EditorAssigns(r)
EditorsCommit == \E r \in Editors : EditorCommits(r)

(***************************************************************************)
(* The specifications.  Spec is the plans router serving requests;         *)
(* RelaySpec is one run of GPTBackendClient.stream_chat_sse; FlowSpec is   *)
(* one run of LangflowClient.stream_chat_sse.  Each leaves the variables   *)
(* of the other two at rest.                                               *)
(***************************************************************************)
vars ==
    <<plansVars, relayVars, flowVars, authVars, popVars, normVars, cacheVars, dbVars, placeVars, concVars, amenVars, npsVars, searchVars, analyticsVars>>

AuthAtRest ==
    /\ auth0_domain = "auphere.eu.auth0.com"
    /\ authCalls = <<>>

FlowAtRest ==
    /\ mode = "recommend"
    /\ flow_ids = FlowIds("flow-recommend", "flow-chitchat")
    /\ fpc = "start"
    /\ blocks = <<>>
    /\ frames = <<>>
    /\ accumulated_text = <<>>
    /\ flow_places = <<>>
    /\ final_data = [none |-> TRUE]
    /\ ffate = "none"
    /\ flow_call = NoCall

ListPlans ==
    /\ \E u \in Users, f \in StateFilters : list_plans(u, f)
    /\ UNCHANGED exceptPlans
CreatePlan ==
    /\ \E u \in Users, b \in CreateBodies, o \in UpsertOutcomes : create_plan(u, b, o)
    /\ UNCHANGED exceptPlans
GetPlan ==
    /\ \E u \in Users, id \in PlanIds : get_plan(u, id)
    /\ UNCHANGED exceptPlans
UpdatePlan ==
    /\ \E u \in Users, id \in PlanIds, b \in CreateBodies : update_plan(u, id, b)
    /\ UNCHANGED exceptPlans
PatchPlan ==
    /\ \E u \in Users, id \in PlanIds, p \in PatchBodies : patch_plan(u, id, p)
    /\ UNCHANGED exceptPlans
PatchPlanAiEdit ==
    /\ \E u \in Users, id \in PlanIds, p \in AiEditBodies : patch_plan_ai_edit(u, id, p)
    /\ UNCHANGED exceptPlans
DeletePlan ==
    /\ \E u \in Users, id \in PlanIds : delete_plan(u, id)
    /\ UNCHANGED exceptPlans

Init ==
    /\ PlansInit
    /\ RelayInit
    /\ FlowAtRest
    /\ AuthAtRest
    /\ PopAtRest
    /\ NormAtRest
    /\ CacheAtRest
    /\ DbAtRest
    /\ PlaceAtRest
    /\ ConcAtRest
    /\ AmenAtRest
    /\ NpsAtRest
    /\ SearchAtRest
    /\ AnalyticsAtRest

Next ==
    \/ ListPlans
    \/ CreatePlan
    \/ GetPlan
    \/ UpdatePlan
    \/ PatchPlan
    \/ PatchPlanAiEdit
    \/ DeletePlan

Spec == Init /\ [][Next]_vars

RelaySpecInit ==
    /\ PlansInit
    /\ RelayInit
    /\ FlowAtRest
    /\ AuthAtRest
    /\ PopAtRest
    /\ NormAtRest
    /\ CacheAtRest
    /\ DbAtRest
    /\ PlaceAtRest
    /\ ConcAtRest
    /\ AmenAtRest
    /\ NpsAtRest
    /\ SearchAtRest
    /\ AnalyticsAtRest

RelayNext ==
    \/ RelayOpen
    \/ RelayOpenFails
    \/ RelayLine
    \/ RelayBreaks
    \/ RelayEnds

RelaySpec == RelaySpecInit /\ [][RelayNext]_vars

FlowSpecInit ==
    /\ PlansInit
    /\ RelayInit
    /\ FlowInit
    /\ AuthAtRest
    /\ PopAtRest
    /\ NormAtRest
    /\ CacheAtRest
    /\ DbAtRest
    /\ PlaceAtRest
    /\ ConcAtRest
    /\ AmenAtRest
    /\ NpsAtRest
    /\ SearchAtRest
    /\ AnalyticsAtRest

FlowNext ==
    \/ FlowNotConfigured
    \/ FlowOpen
    \/ FlowOpenFails
    \/ FlowBlock
    \/ FlowBreaks
    \/ FlowEnds
    \/ send_message

FlowSpec == FlowSpecInit /\ [][FlowNext]_vars

AuthSpecInit ==
    /\ PlansInit
    /\ RelayInit
    /\ FlowAtRest
    /\ AuthInit
    /\ PopAtRest
    /\ NormAtRest
    /\ CacheAtRest
    /\ DbAtRest
    /\ PlaceAtRest
    /\ ConcAtRest
    /\ AmenAtRest
    /\ NpsAtRest
    /\ SearchAtRest
    /\ AnalyticsAtRest

AuthNext ==
    \/ get_current_user
    \/ get_optional_user

AuthSpec == AuthSpecInit /\ [][AuthNext]_vars

AmenSpecInit ==
    /\ PlansInit
    /\ RelayInit
    /\ FlowAtRest
    /\ AuthAtRest
    /\ PopAtRest
    /\ NormAtRest
    /\ CacheAtRest
    /\ DbAtRest
    /\ PlaceAtRest
    /\ ConcAtRest
    /\ AmenInit
    /\ NpsAtRest
    /\ SearchAtRest
    /\ AnalyticsAtRest

AmenNext ==
    \/ EnrichOnce
    \/ EnrichRaises
    \/ EnrichTwice

AmenSpec == AmenSpecInit /\ [][AmenNext]_vars

NpsSpecInit ==
    /\ PlansInit
    /\ RelayInit
    /\ FlowAtRest
    /\ AuthAtRest
    /\ PopAtRest
    /\ NormAtRest
    /\ CacheAtRest
    /\ DbAtRest
    /\ PlaceAtRest
    /\ ConcAtRest
    /\ AmenAtRest
    /\ NpsInit
    /\ SearchAtRest
    /\ AnalyticsAtRest

NpsNext ==
    \/ NormalizeNoPlaces
    \/ NormalizeNextPlace
    \/ NormalizePlacesReturns

NpsSpec == NpsSpecInit /\ [][NpsNext]_vars

SearchSpecInit ==
    /\ PlansInit
    /\ RelayInit
    /\ FlowAtRest
    /\ AuthAtRest
    /\ PopAtRest
    /\ NormAtRest
    /\ CacheAtRest
    /\ DbAtRest
    /\ PlaceAtRest
    /\ ConcAtRest
    /\ AmenAtRest
    /\ NpsAtRest
    /\ SearchInit
    /\ AnalyticsAtRest

SearchNext ==
    \/ search_places_get
    \/ search_places

SearchSpec == SearchSpecInit /\ [][SearchNext]_vars

AnalyticsSpecInit ==
    /\ PlansInit
    /\ RelayInit
    /\ FlowAtRest
    /\ AuthAtRest
    /\ PopAtRest
    /\ NormAtRest
    /\ CacheAtRest
    /\ DbAtRest
    /\ PlaceAtRest
    /\ ConcAtRest
    /\ AmenAtRest
    /\ NpsAtRest
    /\ SearchAtRest
    /\ AnalyticsInit

AnalyticsNext ==
    \/ ModuleLoad
    \/ identify_user
    \/ track_event
    \/ set_user_properties
    \/ track_wrapper
    \/ shutdown_analytics

AnalyticsSpec == AnalyticsSpecInit /\ [][AnalyticsNext]_vars

ConcSpecInit ==
    /\ PlansInit
    /\ RelayInit
    /\ FlowAtRest
    /\ AuthAtRest
    /\ PopAtRest
    /\ NormAtRest
    /\ CacheAtRest
    /\ DbAtRest
    /\ PlaceAtRest
    /\ ConcInit
    /\ AmenAtRest
    /\ NpsAtRest
    /\ SearchAtRest
    /\ AnalyticsAtRest

ConcNext ==
    \/ Loads
    \/ Rejected
    \/ Assigns
    \/ EditorsCommit

ConcSpec == ConcSpecInit /\ [][ConcNext]_vars

PlaceSpecInit ==
    /\ PlansInit
    /\ RelayInit
    /\ FlowAtRest
    /\ AuthAtRest
    /\ PopAtRest
    /\ NormAtRest
    /\ CacheAtRest
    /\ DbAtRest
    /\ PlaceInit
    /\ ConcAtRest
    /\ AmenAtRest
    /\ NpsAtRest
    /\ SearchAtRest
    /\ AnalyticsAtRest

PlaceNext == get_place_details

PlaceSpec == PlaceSpecInit /\ [][PlaceNext]_vars

DbSpecInit ==
    /\ PlansInit
    /\ RelayInit
    /\ FlowAtRest
    /\ AuthAtRest
    /\ PopAtRest
    /\ NormAtRest
    /\ CacheAtRest
    /\ DbInit
    /\ PlaceAtRest
    /\ ConcAtRest
    /\ AmenAtRest
    /\ NpsAtRest
    /\ SearchAtRest
    /\ AnalyticsAtRest

DbNext ==
    \/ GetDb
    \/ Writes
    \/ Commits
    \/ HandlerReturns
    \/ HandlerRaises

DbSpec == DbSpecInit /\ [][DbNext]_vars

CacheSpecInit ==
    /\ PlansInit
    /\ RelayInit
    /\ FlowAtRest
    /\ AuthAtRest
    /\ PopAtRest
    /\ NormAtRest
    /\ CacheInit
    /\ DbAtRest
    /\ PlaceAtRest
    /\ ConcAtRest
    /\ AmenAtRest
    /\ NpsAtRest
    /\ SearchAtRest
    /\ AnalyticsAtRest

CacheNext ==
    \/ RedisGet
    \/ RedisSet
    \/ RedisDelete
    \/ RedisPing
    \/ get_popular_times
    \/ CacheTick
    \/ RedisFails
    \/ RedisRecovers

CacheSpec == CacheSpecInit /\ [][CacheNext]_vars

NormSpecInit ==
    /\ PlansInit
    /\ RelayInit
    /\ FlowAtRest
    /\ AuthAtRest
    /\ PopAtRest
    /\ NormInit
    /\ CacheAtRest
    /\ DbAtRest
    /\ PlaceAtRest
    /\ ConcAtRest
    /\ AmenAtRest
    /\ NpsAtRest
    /\ SearchAtRest
    /\ AnalyticsAtRest

NormNext ==
    \/ NormalizeNameless
    \/ NormalizeRaises
    \/ NormalizePlace
    \/ NormalizeAgain

NormSpec == NormSpecInit /\ [][NormNext]_vars

PopSpecInit ==
    /\ PlansInit
    /\ RelayInit
    /\ FlowAtRest
    /\ AuthAtRest
    /\ PopInit
    /\ NormAtRest
    /\ CacheAtRest
    /\ DbAtRest
    /\ PlaceAtRest
    /\ ConcAtRest
    /\ AmenAtRest
    /\ NpsAtRest
    /\ SearchAtRest
    /\ AnalyticsAtRest

PopNext == CalculatePopularity

PopSpec == PopSpecInit /\ [][PopNext]_vars

(***************************************************************************)
(* Claims about the plans router.                                          *)
(***************************************************************************)
ByOtherUser(r) == r.id \in DOMAIN plans /\ plans[r.id].user_id # r.user

\* C1: a GET, PUT, PATCH (plain or ai_edit) or DELETE on /plans/{id} by a
\* user who does not own the plan answers 404 "Plan not found" without the
\* plan, leaves the table as it was and calls neither edit_plan nor
\* upsert_plan_vector; GET /plans lists only rows of the caller.
C1_OwnerIsolation ==
    [][ /\ ( /\ lastReq'.op \in {"get", "put", "patch", "ai_edit", "delete"}
             /\ ByOtherUser(lastReq') )
           => /\ lastReq'.status = 404
              /\ lastReq'.detail = "Plan not found"
              /\ lastReq'.plan = NoBody
              /\ lastReq'.agent = "none"
              /\ lastReq'.upsert = "none"
              /\ plans' = plans
        /\ lastReq'.op = "list"
           => \A row \in lastReq'.listing : row.user_id = lastReq'.user ]_vars

C1_Witness ==
    /\ lastReq.op = "ai_edit"
    /\ lastReq.status = 404
    /\ ByOtherUser(lastReq)

\* the body fields of PlanUpdateRequest and the column each one is stored in
PatchFields ==
    {"name", "description", "category", "state", "vibes", "tags", "execution",
     "stops", "summary", "final_recommendations", "metadata"}
ColumnOf(f) == IF f = "metadata" THEN "extra_data" ELSE f
OtherColumns ==
    {"id", "user_id", "created_at", "vibe", "total_duration", "total_distance"}

\* C2: a PATCH without ai_edit stores, for every field the body supplies,
\* the supplied value, and leaves every other column of the row (updated_at
\* apart) and every other row exactly as they were.
C2_PatchFrame ==
    [][ (lastReq'.op = "patch" /\ lastReq'.status = 200)
        => LET id == lastReq'.id
               p == lastReq'.body
           IN /\ DOMAIN plans' = DOMAIN plans
              /\ \A f \in PatchFields :
                    plans'[id][ColumnOf(f)] =
                        IF f \in DOMAIN p THEN p[f] ELSE plans[id][ColumnOf(f)]
              /\ \A c \in OtherColumns : plans'[id][c] = plans[id][c]
              /\ \A i \in DOMAIN plans \ {id} : plans'[i] = plans[i] ]_vars

C2_Witness ==
    /\ lastReq.op = "patch"
    /\ lastReq.status = 200
    /\ DOMAIN lastReq.body = {"name"}
    /\ plans[lastReq.id].name = "New Name"
    /\ plans[lastReq.id].stops = <<"s1", "s2">>
    /\ plans[lastReq.id].tags = <<"t1">>
    /\ plans[lastReq.id].summary = {"total_duration=3h"}

\* C3: every accepted ai_edit PATCH leaves metadata.ai_edits equal to the
\* entries it held before followed by the new entry, cut to the last
\* AuditCap: n edits after k entries leave min(k + n, AuditCap) entries,
\* oldest first.
C3_AuditTrailGrows ==
    [][ (lastReq'.op = "ai_edit" /\ lastReq'.status = 200)
        => LET id == lastReq'.id
               before == AuditTrail(plans[id].extra_data)
               after == plans'[id].extra_data.ai_edits
           IN /\ after.t = "list"
              /\ Len(after.v) = IF Len(before) + 1 <= AuditCap
                                THEN Len(before) + 1 ELSE AuditCap
              /\ after.v[Len(after.v)].edit = lastReq'.body.ai_edit
              /\ \A i \in 1..(Len(after.v) - 1) :
                    after.v[i] = before[Len(before) + 1 - Len(after.v) + i] ]_vars

\* C4: when edit_plan raises the PATCH answers 502, when the agent answers
\* success=false it answers 400, and either way the table is exactly as
\* before and no vector upsert is sent.
C4_RejectedEditChangesNothing ==
    [][ lastReq'.op = "ai_edit"
        => /\ lastReq'.agent = "raised" => lastReq'.status = 502
           /\ lastReq'.agent = "failed" => lastReq'.status = 400
           /\ lastReq'.status \in {400, 502}
              => /\ plans' = plans
                 /\ lastReq'.upsert = "none"
                 /\ lastReq'.plan = NoBody ]_vars

C4_Witness ==
    /\ lastReq.op = "ai_edit"
    /\ lastReq.status = 400
    /\ lastReq.agent = "failed"
    /\ lastReq.id \in DOMAIN plans

\* C5: whenever POST /plans or PATCH /plans/{id} got as far as the vector
\* upsert, the answer is the success response (201 / 200) carrying the row,
\* and the row is in the table as answered, whatever the upsert did.
C5_UpsertIsBestEffort ==
    (lastReq.op \in {"create", "patch", "ai_edit"} /\ lastReq.upsert # "none")
    => /\ lastReq.status = IF lastReq.op = "create" THEN 201 ELSE 200
       /\ lastReq.id \in DOMAIN plans
       /\ plans[lastReq.id] = lastReq.plan

C5_Witness ==
    /\ lastReq.op = "ai_edit"
    /\ lastReq.upsert = "raise"
    /\ lastReq.status = 200
    /\ plans[lastReq.id] = lastReq.plan

(***************************************************************************)
(* Claims about the agent SSE relay (RelaySpec).  Line i of the output is  *)
(* compared with line i of the input; an SSE frame is a run of lines       *)
(* between blank lines.                                                    *)
(***************************************************************************)
\* lines i and j belong to the same SSE frame: no blank line from one to the other
SameFrame(lines, i, j) ==
    \A k \in (IF i < j THEN i ELSE j)..(IF i < j THEN j ELSE i) : lines[k].k # "blank"

\* the frame of line i holds an "event: end" line
FrameNamesEnd(lines, i) ==
    \E j \in 1..Len(lines) :
        /\ SameFrame(lines, i, j)
        /\ lines[j].k = "event"
        /\ lines[j].name = "end"

\* line i is the data line of an end frame: the first data line after the
\* frame's "event: end" line
EndFrameData(lines, i) ==
    /\ lines[i].k = "data"
    /\ \E j \in 1..(i - 1) :
        /\ lines[j].k = "event"
        /\ lines[j].name = "end"
        /\ \A k \in (j + 1)..(i - 1) : lines[k].k = "other"

\* the data of line i is a JSON object with a non-empty places array
CarriesPlaces(line) ==
    /\ line.text.fmt # "invalid"
    /\ IsObject(line.text.val)
    /\ Opt(line.text.val, "places", <<>>) # <<>>

\* C6: while nothing has failed the relay has emitted exactly one line for
\* each upstream line received, the i-th output line answering the i-th
\* upstream line: a blank line for a blank line, the same line for an event
\* or other line, a data line for a data line.
C6_OneLinePerLineInOrder ==
    fate = "none"
    => /\ Len(out) = Len(received)
       /\ \A i \in 1..Len(received) :
            /\ out[i].k = received[i].k
            /\ received[i].k = "blank" => out[i] = Blank
            /\ received[i].k \in {"event", "other"} => out[i] = received[i]
            /\ received[i].k = "data"
               => \/ out[i] = received[i]
                  \/ out[i].text.fmt = "canon"

C6_Witness ==
    /\ rpc = "done"
    /\ fate = "none"
    /\ Len(received) = 3
    /\ received[1] = EventLine(FALSE, "token")
    /\ received[2].k = "data"
    /\ received[3] = Blank
    /\ out[3] = Blank

\* C7: the data line of every frame that holds no "event: end" line is
\* forwarded exactly as received.
C7_OnlyEndFramesRewritten ==
    \A i \in 1..Len(received) :
        (received[i].k = "data" /\ ~FrameNamesEnd(received, i))
        => out[i] = received[i]

\* the places the claim describes: the named items, each normalized, in order
KeptPlaces(raws) == SelectSeq(raws, LAMBDA r : ~Nameless(r))
ExpectedPlaces(raws) == [i \in 1..Len(KeptPlaces(raws)) |-> NormalizedPlace(KeptPlaces(raws)[i])]

C9_OneErrorFrameLast ==
    /\ rpc # "raised"
    /\ fate # "none"
       => /\ rpc = "done"
          /\ Len(out) = Len(received) + 1
          /\ out[Len(out)] = OnFailure(fate).frames[1]
          /\ out[Len(out)].k = "errorframe"
          /\ \A i \in 1..Len(received) : out[i].k # "errorframe"
    /\ fate = "none" => \A i \in 1..Len(out) : out[i].k # "errorframe"

C9_Witness ==
    /\ fate = "exception"
    /\ rpc = "done"
    /\ Len(received) = 2
    /\ Len(out) = 3
    /\ out[3].k = "errorframe"
    /\ out[3].name = "error"

(***************************************************************************)
(* Claims about the alternate backend's stream (FlowSpec).                 *)
(***************************************************************************)
\* C10: a run with a configured flow emits the status frame first, then
\* only token frames, then, when it finishes, exactly one terminal frame,
\* end or error; after an upstream error event or an exception the terminal
\* frame is error and there is no end frame; the generator never raises.
C10_StatusTokensTerminal ==
    /\ fpc # "raised"
    /\ (flow_call.op = "stream" /\ flow_call.flow_id # "")
       => /\ frames[1].event = "status"
          /\ \A i \in 2..(Len(frames) - 1) : frames[i].event = "token"
          /\ fpc = "streaming"
             => /\ ffate = "none"
                /\ \A i \in 2..Len(frames) : frames[i].event = "token"
          /\ fpc = "done"
             => /\ Len(frames) >= 2
                /\ frames[Len(frames)].event =
                        IF ffate = "none" THEN "end" ELSE "error"

C10_Witness ==
    /\ fpc = "done"
    /\ ffate = "upstream_error"
    /\ Len(blocks) = 3
    /\ Len(frames) = 3
    /\ frames[1] = StatusFrame
    /\ frames[2].event = "token"
    /\ frames[3] = Frame("error", <<"boom">>, <<>>)

(***************************************************************************)
(* Claims about token validation (AuthSpec).                               *)
(***************************************************************************)
\* the token of the call would not validate
ValidationFails(call) ==
    \/ auth0_domain = ""
    \/ Raised(call.token, call.jwks)[1] # ""

\* C11: get_optional_user never raises: without an Authorization header it
\* resolves to no identity, and so it does for every bearer token whose
\* validation fails (expired, malformed, bad signature, provider
\* unreachable, provider not configured); it resolves to a user only for a
\* token that validates.
C11_OptionalUserNeverRaises ==
    \A i \in 1..Len(authCalls) :
        authCalls[i].dep = "get_optional_user"
        => LET call == authCalls[i]
           IN /\ call.outcome.kind \in {"anonymous", "user"}
              /\ call.outcome.status = 0
              /\ (call.token = NoToken \/ ValidationFails(call))
                 <=> call.outcome.kind = "anonymous"
              /\ call.outcome.kind = "user" => call.outcome.user.id = call.token.sub

C11_Witness ==
    /\ auth0_domain # ""
    /\ Len(authCalls) = 2
    /\ authCalls[1].dep = "get_optional_user"
    /\ authCalls[1].token.defect = "bad_signature"
    /\ authCalls[1].outcome.kind = "anonymous"
    /\ authCalls[2].dep = "get_optional_user"
    /\ authCalls[2].token.defect = "unknown_kid"
    /\ authCalls[2].jwks = "up"
    /\ authCalls[2].outcome.kind = "anonymous"

\* C12: every failure of token validation is a 401 whose detail names the
\* cause: "Token has expired" for an expired signature, "Auth0 not
\* configured on server" when no domain is configured, the underlying
\* reason for an invalid token, and "Authentication failed: ..." only for
\* any other failure.
C12_DetailNamesTheCause ==
    \A i \in 1..Len(authCalls) :
        (authCalls[i].dep = "get_current_user" /\ ValidationFails(authCalls[i]))
        => LET call == authCalls[i]
               e == Raised(call.token, call.jwks)
               text == call.outcome.detail.text
           IN /\ call.outcome.kind = "error"
              /\ call.outcome.status = 401
              /\ auth0_domain = "" => text = "Auth0 not configured on server"
              /\ (auth0_domain # "" /\ e[1] = "ExpiredSignatureError")
                 => text = "Token has expired"
              /\ (auth0_domain # "" /\ e[1] = "InvalidTokenError")
                 => call.outcome.detail.reason = e[2]
              /\ text = "Authentication failed: "
                 => (auth0_domain # "" /\ e[1] = "PyJWKClientError")

\* the flow id the mode selects as C14 states it
StatedFlowId ==
    IF mode \in {"explore", "recommend"} THEN flow_ids.recommend ELSE flow_ids.chitchat

\* the flow id the mode selects: chitchat has its own id when one is
\* configured, everything else goes to the recommend flow
SelectedFlowId ==
    IF mode = "chitchat" /\ flow_ids.chitchat # "" THEN flow_ids.chitchat
    ELSE flow_ids.recommend

\* how a call ends that finds no flow id: nothing is sent, send_message
\* raises ValueError, the stream is one error frame
FailsFast ==
    /\ ~flow_call.called
    /\ flow_call.op = "send" => flow_call.result = "ValueError"
    /\ flow_call.op = "stream"
       => /\ fpc = "done"
          /\ Len(frames) = 1
          /\ frames[1].event = "error"

\* C14 as stated: explore and recommend select the recommend flow id, every
\* other mode the chitchat flow id; when the id selected is not configured
\* send_message fails without calling the backend and stream_chat_sse
\* emits exactly one error frame and nothing else.
C14_FlowSelectionAsStated ==
    flow_call.op # "none"
    => /\ flow_call.flow_id = StatedFlowId
       /\ StatedFlowId = "" => FailsFast

\* C14, amended: explore and recommend select the recommend flow id,
\* chitchat selects the chitchat flow id when one is configured, and every
\* other mode, and chitchat without an id of its own, falls back to the
\* recommend flow id; the call fails fast only when the id so selected is
\* not configured, and otherwise goes out to the selected flow.
C14_FlowSelection ==
    flow_call.op # "none"
    => /\ flow_call.flow_id = SelectedFlowId
       /\ SelectedFlowId = "" => FailsFast
       /\ SelectedFlowId # "" => flow_call.called

C14_Witness ==
    /\ mode = "chitchat"
    /\ flow_ids.chitchat = ""
    /\ flow_ids.recommend = "flow-recommend"
    /\ flow_call = FlowCall("send", "flow-recommend", TRUE, "returned")

(***************************************************************************)
(* Claims about the popularity score (PopSpec).                            *)
(***************************************************************************)
\* C18: for every hour 0..23, both values of the weekend flag and every
\* boost in {0, 5, 10, 15} the score is an integer in 0..100; in the dinner
\* hours 19..22 a weekday with boost 0 scores 85 and Saturday (weekend,
\* boost 15) scores 100.
C18_ScoreInRange ==
    score # NotScored
    => /\ score \in 0..100
       /\ (score_args.hour \in 19..22 /\ ~score_args.is_weekend /\ score_args.boost = 0)
          => score = 85
       /\ (score_args.hour \in 19..22 /\ score_args.is_weekend /\ score_args.boost = 15)
          => /\ score = 100
             /\ _generate_mock_popular_times(score_args.hour).Saturday = 100
             /\ _generate_mock_popular_times(score_args.hour).Monday = 85

C18_Witness ==
    /\ score_args = [hour |-> 22, is_weekend |-> TRUE, boost |-> 15]
    /\ score = 100

(***************************************************************************)
(* Claims about normalize_place (NormSpec).                                *)
(***************************************************************************)
\* what the contract gives for one supplied price level
StatedPriceLevel(v) == IF v < 1 THEN 2 ELSE IF v > 4 THEN 4 ELSE v

\* the integers the raw place supplies as priceLevel or price_level
SuppliedPriceLevels ==
    {raw_place[k] : k \in {"priceLevel", "price_level"} \cap DOMAIN raw_place}

\* C19: for every integer supplied as priceLevel or price_level the place
\* normalize_place returns has a priceLevel in 1..4: a value in 1..4 is kept,
\* a value below 1 and an absent value become 2, a value above 4 becomes 4.
C19_PriceLevelClamped ==
    norm_pc \in {"first", "second"}
    => /\ first_pass.priceLevel \in 1..4
       /\ SuppliedPriceLevels = {} => first_pass.priceLevel = 2
       /\ SuppliedPriceLevels # {}
          => \E v \in SuppliedPriceLevels : first_pass.priceLevel = StatedPriceLevel(v)
       /\ \A v \in {-3, 0} : SuppliedPriceLevels = {v} => first_pass.priceLevel = 2
       /\ \A v \in {5, 99} : SuppliedPriceLevels = {v} => first_pass.priceLevel = 4

C19_Witness ==
    /\ norm_pc = "first"
    /\ "priceLevel" \notin DOMAIN raw_place
    /\ "price_level" \in DOMAIN raw_place
    /\ raw_place.price_level = -3
    /\ first_pass.priceLevel = 2

\* C20: for every raw place that normalizes to a place p, normalize_place(p)
\* is p field for field.
C20_NormalizeIdempotent ==
    norm_pc = "second" => second_pass = first_pass

(***************************************************************************)
(* Claims about the cache client and the popular-times cache (CacheSpec).  *)
(***************************************************************************)
ClientOps == {"get", "set", "delete", "ping"}

\* C15: after get_popular_times(id) has produced a result that is not None
\* while the cache is reachable, the result is stored under popular_times:{id}
\* with a TTL of 3600 s, and a later call for the same id within the TTL
\* returns the stored value without a live lookup.
C15_ResultCachedForAnHour ==
    \A i \in 1..Len(cache_log) :
        LET first == cache_log[i]
        IN (first.op = "get_popular_times" /\ first.result # Absent /\ first.up)
           => /\ (i = Len(cache_log) /\ first.at = cache_clock)
                 => \E e \in cache_store :
                        /\ e.key = first.key
                        /\ e.v = first.result.v
                        /\ e.expires = first.at + cache_ttl
              /\ \A j \in (i + 1)..Len(cache_log) :
                    LET later == cache_log[j]
                    IN (/\ later.op = "get_popular_times"
                        /\ later.key = first.key
                        /\ later.up
                        /\ later.at < first.at + cache_ttl
                        /\ \A k \in (i + 1)..(j - 1) :
                              ~(cache_log[k].op \in {"set", "delete"}
                                /\ cache_log[k].key = first.key))
                       => /\ ~later.live
                          /\ later.result = first.result

\* C16: no cache-client operation lets a failure of the store reach its
\* caller: with the store down get returns None and set, delete and ping
\* return False, as they would on an empty cache.
C16_StoreFailuresAbsorbed ==
    \A i \in 1..Len(cache_log) :
        LET call == cache_log[i]
        IN call.op \in ClientOps
           => /\ ~call.raised
              /\ ~call.up => call.result = (IF call.op = "get" THEN Absent ELSE Bool(FALSE))

C16_Witness ==
    /\ Len(cache_log) = 2
    /\ cache_log[1].op = "set" /\ cache_log[1].up /\ cache_log[1].result = Bool(TRUE)
    /\ cache_log[2].op = "get" /\ ~cache_log[2].up /\ cache_log[2].key = cache_log[1].key
    /\ cache_log[2].at = cache_log[1].at
    /\ cache_log[2].result = Absent /\ ~cache_log[2].raised

(***************************************************************************)
(* Claims about get_db (DbSpec).                                           *)
(***************************************************************************)
\* C17: each request that depends on get_db has a session of its own, never
\* the session of another request that is running, and the session is
\* released when the request completes, whether its handler returned or
\* raised.
C17_OwnSessionAlwaysReleased ==
    /\ \A r \in Requests :
          /\ db_pc[r] = "waiting" <=> db_session[r] = NoSession
          /\ db_pc[r] = "running" => db_session[r] \in db_open
          /\ db_pc[r] \in {"returned", "raised"}
             => db_session[r] \in db_closed /\ db_session[r] \notin db_open
    /\ \A r1, r2 \in Requests :
          (r1 # r2 /\ db_pc[r1] # "waiting" /\ db_pc[r2] # "waiting")
          => db_session[r1] # db_session[r2]
    /\ Cardinality(db_open) = Cardinality({r \in Requests : db_pc[r] = "running"})

C17_Witness ==
    /\ db_pc[1] = "raised"
    /\ db_pc[2] = "running"
    /\ db_pc[3] = "returned"
    /\ db_open = {db_session[2]}
    /\ db_closed = {db_session[1], db_session[3]}

(***************************************************************************)
(* Claims about GET /places/{place_id} (PlaceSpec).                        *)
(***************************************************************************)
Answered == place_request.upstream = "ok"
Sent == place_request.payload

\* the base place fields of the response are those of the payload
BaseFieldsReturned ==
    /\ place_response.status = 200
    /\ place_response.body.place_id = _map_place_record(Sent).place_id
    /\ place_response.body.name = Sent.name
    /\ place_response.body.types = _map_place_record(Sent).types
    /\ \A k \in DOMAIN _map_place_record(Sent).custom_attributes :
          /\ k \in DOMAIN place_response.body.custom_attributes
          /\ place_response.body.custom_attributes[k]
                = _map_place_record(Sent).custom_attributes[k]

LookupFailed == "google_place_id" \in DOMAIN Sent /\ place_request.lookup.raised

\* the key of the response holds what the payload itself carried under it,
\* and is absent when the payload carried nothing
AsSent(k) ==
    IF k \in DOMAIN Sent /\ Filled(Sent[k])
    THEN /\ k \in DOMAIN place_response.body.custom_attributes
         /\ place_response.body.custom_attributes[k] = Sent[k]
    ELSE k \notin DOMAIN place_response.body.custom_attributes

C29_IdentityFrozen ==
    [][\A id \in DOMAIN plans \cap DOMAIN plans' :
          /\ plans'[id].id = id
          /\ plans'[id].id = plans[id].id
          /\ plans'[id].user_id = plans[id].user_id
          /\ plans'[id].created_at = plans[id].created_at]_vars

C29_Witness ==
    /\ lastReq.op = "ai_edit"
    /\ lastReq.status = 200
    /\ lastReq.agent = "edited"
    /\ lastReq.plan.name = "Edited"
    /\ lastReq.plan.id = lastReq.id
    /\ lastReq.plan.user_id = lastReq.user
    /\ lastReq.plan.created_at < lastReq.plan.updated_at

\* C30: a PUT /plans/{id} whose body omits state leaves the stored state of
\* the plan as it was.
C30_PutKeepsState ==
    [][(/\ lastReq'.op = "put"
        /\ lastReq'.status = 200
        /\ "state" \notin DOMAIN lastReq'.body)
       => plans'[lastReq'.id].state = plans[lastReq'.id].state]_vars

(***************************************************************************)
(* Claims about concurrent ai_edit requests (ConcSpec).                    *)
(***************************************************************************)
\* the edits of the requests that have committed
CommittedEdits == {EditTexts[r] : r \in {e \in Editors : conc_req[e].pc = "done"}}

\* C28: when several ai_edit PATCH requests on one plan run concurrently and
\* all succeed, each contributes its own audit entry: once they have all
\* committed, metadata.ai_edits holds one entry for each of them.
C28_NoLostAuditEntry ==
    (\A r \in Editors : conc_req[r].pc = "done")
    => /\ conc_stored.ai_edits.t = "list"
       /\ \A r \in Editors :
             \E i \in 1..Len(conc_stored.ai_edits.v) :
                 conc_stored.ai_edits.v[i].edit = EditTexts[r]

(***************************************************************************)
(* Claims about the end event of the flow stream (FlowSpec).               *)
(***************************************************************************)
\* the block the step consumed is an end event
EndEventStep ==
    /\ fpc = "streaming"
    /\ Len(blocks') = Len(blocks) + 1
    /\ blocks'[Len(blocks')].kind = "event"
    /\ blocks'[Len(blocks')].event = "end"

\* the first non-empty sequence of a list of candidates, <<>> when none
RECURSIVE FirstFound(_)
FirstFound(candidates) ==
    IF candidates = <<>> THEN <<>>
    ELSE IF Head(candidates) # <<>> THEN Head(candidates)
    ELSE FirstFound(Tail(candidates))

\* the places and the texts one `results` object offers, by preference:
\* structured_output, data, message.text with its marker, message.data
PlacesOffered(r, text_before) ==
    LET structured == Opt(r, "structured_output", [none |-> TRUE])
        data_obj == Opt(r, "data", [none |-> TRUE])
        message == Opt(r, "message", [none |-> TRUE])
        msg_text == Opt(message, "text", Text(<<>>, "none", <<>>))
        msg_data == Opt(message, "data", [none |-> TRUE])
    IN << _normalize_places(Opt(structured, "places", <<>>)),
          _normalize_places(Opt(data_obj, "places", <<>>)),
          IF text_before = <<>> /\ TextTruthy(msg_text)
          THEN _normalize_places(_extract_places_from_text(msg_text)[2]) ELSE <<>>,
          _normalize_places(Opt(msg_data, "places", <<>>)) >>

TextsOffered(r) ==
    LET structured == Opt(r, "structured_output", [none |-> TRUE])
        data_obj == Opt(r, "data", [none |-> TRUE])
        message == Opt(r, "message", [none |-> TRUE])
        msg_text == Opt(message, "text", Text(<<>>, "none", <<>>))
        so == Opt(structured, "response_text", "")
        do == Opt(data_obj, "response_text", "")
    IN << IF so # "" THEN <<so>> ELSE <<>>,
          IF do # "" THEN <<do>> ELSE <<>>,
          _extract_places_from_text(msg_text)[1] >>

\* C26: while an end event is handled, places and response text already
\* found are never overwritten: what earlier token / add_message events found
\* stays, and within the event the sources fill what is still missing in the
\* order structured_output, data, message.text with its marker, message.data.
C26_EndNeverOverwrites ==
    [][EndEventStep =>
        LET results == blocks'[Len(blocks')].data.results
        IN /\ flow_places # <<>> => flow_places' = flow_places
           /\ accumulated_text # <<>> => accumulated_text' = accumulated_text
           /\ Len(results) = 1 =>
               LET r == results[1]
                   texts == FirstFound(<<accumulated_text>> \o SubSeq(TextsOffered(r), 1, 2))
               IN /\ accumulated_text' = FirstFound(<<accumulated_text>> \o TextsOffered(r))
                  /\ flow_places' = FirstFound(<<flow_places>> \o PlacesOffered(r, texts))]_vars

\* an add_message event found Bar A and its text, then an end event offering
\* other places and texts in structured_output and data was handled
C26_Witness ==
    /\ Len(blocks) >= 2
    /\ blocks[Len(blocks)].kind = "event"
    /\ blocks[Len(blocks)].event = "end"
    /\ blocks[Len(blocks)].data.results # <<>>
    /\ "structured_output" \in DOMAIN blocks[Len(blocks)].data.results[1]
    /\ \E i \in 1..(Len(blocks) - 1) :
          blocks[i].kind = "event" /\ blocks[i].event = "add_message"
    /\ final_data = blocks[Len(blocks)].data
    /\ flow_places = _normalize_places(<<PlaceA, NonDict>>)
    /\ accumulated_text = <<"Try Bar A">>

(***************************************************************************)
(* Further claims about GET /places/{place_id} (PlaceSpec).                *)
(***************************************************************************)
\* the key of the response holds the list, and is absent when it is empty
AttachedAs(k, list) ==
    IF Filled(list)
    THEN /\ k \in DOMAIN place_response.body.custom_attributes
         /\ place_response.body.custom_attributes[k] = list
    ELSE k \notin DOMAIN place_response.body.custom_attributes

\* C27: the amenities, features and popular-times steps of GET /places/{id}
\* are independent: when one of them raises, the other two are still
\* attempted and what they produce is attached to the response.
C27_EnrichmentStepsIndependent ==
    Answered
    => /\ place_response.status = 200
       /\ (AmenitiesRaise(Sent) /\ ~FeaturesRaise(Sent))
          => AttachedAs("features", enrich_place_with_features(Sent).features)
       /\ (~AmenitiesRaise(Sent) /\ FeaturesRaise(Sent))
          => AttachedAs("amenities", enrich_place_with_amenities(Sent).amenities)
       /\ ("google_place_id" \in DOMAIN Sent /\ ~place_request.lookup.raised
              /\ place_request.lookup.result # Absent)
          => /\ "popular_times" \in DOMAIN place_response.body.custom_attributes
             /\ place_response.body.custom_attributes.popular_times
                   = place_request.lookup.result.v
       /\ (LookupFailed /\ ~AmenitiesRaise(Sent) /\ ~FeaturesRaise(Sent))
          => /\ AttachedAs("amenities", Enriched(Sent).amenities)
             /\ AttachedAs("features", Enriched(Sent).features)

NoNameOrEmpty(place) ==
    "name" \notin DOMAIN place \/ place.name = "" \/ place.name = None

\* the elements of the argument that have a name, in the order of the input
NamedPlaces ==
    SelectSeq(raw_places.items, LAMBDA place : ~NoNameOrEmpty(place))

\* C21: normalize_place yields None for every input with no name or an empty
\* name, and normalize_places returns exactly the normalized forms of the
\* named elements, in input order, and the empty list for an empty or absent
\* input.
C21_NormalizePlacesKeepsNamed ==
    /\ (nps_i > 0 /\ NoNameOrEmpty(raw_places.items[nps_i])) => nps_norm = "None"
    /\ nps_pc = "done"
       => /\ Len(normalized) = Len(NamedPlaces)
          /\ \A i \in 1..Len(NamedPlaces) : normalized[i] = NormalizedPlace(NamedPlaces[i])
          /\ (raw_places.null \/ raw_places.items = <<>>) => normalized = <<>>

\* a list with a nameless element between two named ones has been normalized
C21_Witness ==
    /\ nps_pc = "done"
    /\ Len(raw_places.items) = 3
    /\ Opt(raw_places.items[1], "name", "") = "Cafe Y"
    /\ raw_places.items[2] = [name |-> ""]
    /\ Opt(raw_places.items[3], "name", "") = "Bar X"
    /\ nps_norm = "dict"
    /\ Len(normalized) = 2
    /\ normalized[1].name = "Cafe Y"
    /\ normalized[2].priceLevel = 4

(***************************************************************************)
(* Claims about /places/search (SearchSpec).                               *)
(***************************************************************************)
GivesCity == Opt(search_request, "city", "") # ""
GivesQuery ==
    Opt(search_request, "q", "") # "" \/ Opt(search_request, "query", "") # ""
DefaultCitySent ==
    /\ ~GivesCity
    /\ "city" \in DOMAIN search_params
    /\ search_params.city = places_service_default_city

\* C23: in GET and in POST /places/search the configured default city is
\* sent upstream exactly when the request gives neither a city nor a
\* free-text query; a request with a query and no city forwards no city.
C23_DefaultCityOnlyWithoutQuery ==
    search_request.method # "none"
    => /\ DefaultCitySent <=> (~GivesCity /\ ~GivesQuery)
       /\ (GivesQuery /\ ~GivesCity) => "city" \notin DOMAIN search_params
       /\ GivesCity => search_params.city = search_request.city

(***************************************************************************)
(* Claims about the analytics module (AnalyticsSpec).                      *)
(***************************************************************************)
\* C24: in production mode an exception the collector raises while sending
\* never propagates out of identify_user, track_event, set_user_properties
\* or a track_* wrapper.
C24_SendFailuresNeverPropagate ==
    (_is_production /\ an_last.collector_raised) => ~an_last.raised

\* C25: across any sequence of tracking calls and shutdown_analytics in one
\* production process, the client is constructed at most once.
C25_ClientConstructedAtMostOnce ==
    an_constructed <= 1

====
